---------------------------- MODULE Spec2Model ----------------------------
(***************************************************************************)
(* A model of the Atlas peer-to-peer zonefile replication engine           *)
(* (src/blockstack/atlas.py): the inventory bit vector, the catalog        *)
(* (table "zonefiles") with the in-RAM inventory ZONEFILE_INV, the peer    *)
(* table and peer directory (table "peers"), the RPC client operations,    *)
(* and the four worker threads.                                            *)
(*                                                                         *)
(* Several specifications share the variables; each one exercises one      *)
(* part of the program and leaves the other variables unchanged.           *)
(***************************************************************************)
EXTENDS Integers, Sequences, FiniteSets, TLC

(***************************************************************************)
(* Bounds of the model and the small universes inputs are drawn from.      *)
(***************************************************************************)
MaxRows == 3             \* rows ever inserted into table "zonefiles"
MaxHistory == 2          \* requests recorded in one peer's history
MaxNow == 3602           \* last reading of the clock
ClockStep == 1801        \* seconds between two readings of the clock
MaxFetchSteps == 1       \* steps of the zonefile fetcher
MAX_QUEUED_ZONEFILES == 1   \* capacity of the push queue (1000 in the program)
NumSlots == 2            \* slots of the peer directory (PEER_MAX_DB in the program)
InvBits == 2             \* bits of the inventories remote peers report
NUM_NEIGHBORS == 2       \* peers a neighbor may report (configurable; 80 by default)
PEER_LIFETIME_INTERVAL == 3600   \* seconds a history entry is kept

Hashes == {"h1", "h2"}   \* zonefile hashes
Blocks == {1}            \* block heights
CatThreads == {"t1", "t2"}   \* threads that call the catalog operations
Hostports == {"p1", "p2"}    \* remote peers
MyHostport == "me"           \* this node
Slots == 0..(NumSlots - 1)

None == "None"           \* Python's None

(***************************************************************************)
(* Byte strings are sequences of 0..255.                                   *)
(***************************************************************************)
RECURSIVE Pow2(_)
Pow2(n) == IF n = 0 THEN 1 ELSE 2 * Pow2(n - 1)

\* (byte & (1 << k)) != 0
BitAnd(byte, k) == (byte \div Pow2(k)) % 2 = 1

\* byte | (1 << k)
BitOr(byte, k) == IF BitAnd(byte, k) THEN byte ELSE byte + Pow2(k)

\* byte & ~(1 << k)
BitAndNot(byte, k) == IF BitAnd(byte, k) THEN byte - Pow2(k) ELSE byte

\* max() of a non-empty list of integers
ListMax(s) == CHOOSE m \in {s[i] : i \in 1..Len(s)} : \A i \in 1..Len(s) : s[i] <= m

\* An expansion that adds a byte also to a vector that is long enough
ZeroExtendAlways(inv_list, max_byte_index) ==
    IF Len(inv_list) <= max_byte_index
    THEN inv_list \o [i \in 1..(max_byte_index - Len(inv_list) + 1) |-> 0]
    ELSE inv_list

\* inv_list += ['\0'] * (max_byte_index - len(inv_list)), when len <= max_byte_index
ZeroExtend(inv_list, max_byte_index) ==
    IF Len(inv_list) <= max_byte_index
    THEN inv_list \o [i \in 1..(max_byte_index - Len(inv_list)) |-> 0]
    ELSE inv_list

RECURSIVE FlipLoop(_, _, _, _)
FlipLoop(inv_list, bit_indexes, i, operation) ==
    IF i > Len(bit_indexes) THEN inv_list
    ELSE LET byte_index == bit_indexes[i] \div 8
             bit_index == 7 - (bit_indexes[i] % 8)
             zfbits == inv_list[byte_index + 1]
             newbits == IF operation THEN BitOr(zfbits, bit_index)
                                     ELSE BitAndNot(zfbits, bit_index)
         IN FlipLoop([inv_list EXCEPT ![byte_index + 1] = newbits],
                     bit_indexes, i + 1, operation)

\* Set (operation = TRUE) or clear the bits bit_indexes of inv_vec, expanding
\* inv_vec with zero bytes to hold the highest bit.
atlas_inventory_flip_zonefile_bits(inv_vec, bit_indexes, operation) ==
    LET max_byte_index == ListMax(bit_indexes) \div 8 + 1
    IN FlipLoop(ZeroExtend(inv_vec, max_byte_index), bit_indexes, 1, operation)

\* True iff all the bits bit_indexes are set in inv_vec.
atlas_inventory_test_zonefile_bits(inv_vec, bit_indexes) ==
    LET max_byte_index == ListMax(bit_indexes) \div 8 + 1
        inv_list == ZeroExtend(inv_vec, max_byte_index)
    IN \A i \in 1..Len(bit_indexes) :
          BitAnd(inv_list[bit_indexes[i] \div 8 + 1], 7 - (bit_indexes[i] % 8))

(***************************************************************************)
(* State.                                                                  *)
(***************************************************************************)
VARIABLES
    zonefiles,       \* table "zonefiles": rows in inv_index order
    zonefiles_seq,   \* AUTOINCREMENT counter of table "zonefiles"
    ZONEFILE_INV,    \* the in-RAM inventory vector
    cat_pc,          \* per catalog thread: where it is in its operation
    cat_call,        \* per catalog thread: the operation and its arguments
    cat_local,       \* per catalog thread: locals zfbits, inv_vec, was_present
    cat_mode,        \* "serial": one operation at a time; "conc": one concurrent round
    PEER_TABLE,      \* hostport -> [time, zonefile_inv, blacklisted, whitelisted]
    peers,           \* table "peers": rows [peer_hostport, peer_slot, discovery_time]
    now,             \* time_now()
    rpc_last,        \* the last operation called: its arguments, reply and outcome
    zonefile_queue,  \* the push queue: entries [zonefile_hash, zonefile_data]
    PEER_TABLE_LOCK_HOLDER,   \* the thread holding the peer table lock, or None
    th_pc,           \* per thread of the node: where it is in its step or operation, and the peer it asks
    LOCKS,           \* per threading.Lock of the module: the thread that acquired it, or None
    th_step,         \* per thread: the lock call it is at within its section
    running,         \* per worker: its flag self.running
    run_pc,          \* per worker: where it is in run(), and whether it was asked to join
    fetch,           \* the locals of AtlasZonefileCrawler.step, and what it did so far
    crawler          \* the fields of the AtlasPeerCrawler, and where it is in its step

catVars == <<zonefiles, zonefiles_seq, ZONEFILE_INV, cat_pc, cat_call, cat_local, cat_mode>>
peerVars == <<PEER_TABLE, peers, now>>

lockVars == <<PEER_TABLE_LOCK_HOLDER, th_pc, LOCKS, th_step>>
runVars == <<running, run_pc>>

vars == <<catVars, peerVars, rpc_last, zonefile_queue, lockVars, runVars, fetch, crawler>>

\* What each part of the program leaves alone
notCat == <<peerVars, rpc_last, zonefile_queue, lockVars, runVars, fetch, crawler>>
notPeer == <<catVars, zonefile_queue, lockVars, runVars, fetch, crawler>>
notPush == <<catVars, lockVars, runVars, fetch, crawler>>
notLock == <<catVars, peerVars, rpc_last, zonefile_queue, runVars, fetch, crawler>>
notRun == <<catVars, peerVars, rpc_last, zonefile_queue, lockVars, fetch, crawler>>
notCrawl == <<catVars, zonefile_queue, lockVars, runVars, fetch>>
notFetch == <<zonefiles_seq, cat_pc, cat_call, cat_local, cat_mode, peers, now, rpc_last,
              zonefile_queue, lockVars, runVars, crawler>>

(***************************************************************************)
(* Catalog (table "zonefiles") and the in-RAM inventory.                   *)
(***************************************************************************)
\* SELECT * FROM zonefiles WHERE zonefile_hash = ?  (rows in inv_index order)
RECURSIVE RowsOfHash(_, _)
RowsOfHash(rows, zonefile_hash) ==
    IF rows = <<>> THEN <<>>
    ELSE (IF Head(rows).zonefile_hash = zonefile_hash THEN <<Head(rows)>> ELSE <<>>)
         \o RowsOfHash(Tail(rows), zonefile_hash)

\* The INSERT into a table whose key is not AUTOINCREMENT: the key is one
\* more than the highest key the table holds
InsertZonefileRowid(rows, seq, zonefile_hash, present, block_height) ==
    Append(rows, [inv_index |-> (IF rows = <<>> THEN 0 ELSE rows[Len(rows)].inv_index) + 1,
                  zonefile_hash |-> zonefile_hash,
                  present |-> present, tried_storage |-> FALSE,
                  block_height |-> block_height])

\* INSERT INTO zonefiles (zonefile_hash, present, tried_storage, block_height)
InsertZonefileRow(rows, seq, zonefile_hash, present, block_height) ==
    Append(rows, [inv_index |-> seq + 1, zonefile_hash |-> zonefile_hash,
                  present |-> present, tried_storage |-> FALSE,
                  block_height |-> block_height])

\* UPDATE zonefiles SET present = ? WHERE zonefile_hash = ?
UpdateZonefilePresent(rows, zonefile_hash, present) ==
    [i \in 1..Len(rows) |->
        IF rows[i].zonefile_hash = zonefile_hash
        THEN [rows[i] EXCEPT !.present = present] ELSE rows[i]]

\* The zero-based bit indexes of a hash: inv_index - 1 of each of its rows
atlasdb_get_zonefile_bits(rows, zonefile_hash) ==
    LET sel == RowsOfHash(rows, zonefile_hash)
    IN [i \in 1..Len(sel) |-> sel[i].inv_index - 1]

NoCall == [op |-> None]

\* The workers of the node and the threads of its RPC server
Workers == {"AtlasPeerCrawler", "AtlasHealthChecker", "AtlasZonefileCrawler", "AtlasZonefilePusher"}
RpcThreads == {"atlas_peer_enqueue", "atlas_zonefile_push_enqueue"}
Threads == Workers \cup RpcThreads

\* The locks of the module (lines 165-169)
LockNames == {"PEER_TABLE_LOCK", "PEER_QUEUE_LOCK", "ZONEFILE_QUEUE_LOCK", "DB_LOCK"}

\* Before atlas_node_start: no thread runs, the push queue is empty, the
\* peer table lock is free
NodeStopped ==
    /\ zonefile_queue = <<>>
    /\ PEER_TABLE_LOCK_HOLDER = None
    /\ th_pc = [t \in Threads |-> [at |-> 0, rpc |-> FALSE, peer |-> None]]
    /\ LOCKS = [l \in LockNames |-> None]
    /\ th_step = [t \in Threads |-> 1]
    /\ running = [w \in Workers |-> FALSE]
    /\ run_pc = [w \in Workers |-> [at |-> "new", asked |-> FALSE]]
    /\ fetch = [pc |-> "idle", missing_zfinfo |-> <<>>, zonefile_hashes |-> <<>>,
                peers |-> <<>>, attempts |-> <<>>, stored |-> {}, raised |-> FALSE,
                steps |-> 0]
    \* AtlasPeerCrawler.__init__; revalidated_at records the time of the last
    \* atlas_revalidate_peers (-1: none yet)
    /\ crawler = [pc |-> "update_new_peers", last_clean_time |-> 0, new_peers |-> {},
                  current_peers |-> {}, current_peer |-> None,
                  current_peer_neighbors |-> {}, prev_peer |-> None,
                  prev_peer_degree |-> 0, revalidated_at |-> -1]
NoLocal == [zfbits |-> <<>>, inv_vec |-> <<>>, was_present |-> None]

CatIdle(t) == cat_pc[t] = "idle"

\* A thread may call an operation: in mode "serial" only when no call is running.
CatMayCall(t) == CatIdle(t) /\ (cat_mode = "serial" => \A u \in CatThreads : CatIdle(u))

\* atlasdb_add_zonefile_info(zonefile_hash, present, block_height): the INSERT
AddInfoInsert(t, zonefile_hash, present, block_height) ==
    /\ CatMayCall(t)
    /\ zonefiles_seq < MaxRows
    /\ zonefiles' = InsertZonefileRow(zonefiles, zonefiles_seq, zonefile_hash, present, block_height)
    /\ zonefiles_seq' = zonefiles_seq + 1
    /\ cat_call' = [cat_call EXCEPT ![t] = [op |-> "add_zonefile_info",
                        zonefile_hash |-> zonefile_hash, present |-> present]]
    /\ cat_local' = [cat_local EXCEPT ![t] = NoLocal]
    /\ cat_pc' = [cat_pc EXCEPT ![t] = "bits"]
    /\ UNCHANGED <<ZONEFILE_INV, cat_mode, notCat>>

\* atlasdb_set_zonefile_present(zonefile_hash, present): the UPDATE.  prior
\* records whether a row of the hash was present when the call began.
SetPresentUpdate(t, zonefile_hash, present) ==
    /\ CatMayCall(t)
    /\ atlasdb_get_zonefile_bits(zonefiles, zonefile_hash) # <<>>
    /\ zonefiles' = UpdateZonefilePresent(zonefiles, zonefile_hash, present)
    /\ cat_call' = [cat_call EXCEPT ![t] = [op |-> "set_zonefile_present",
                        zonefile_hash |-> zonefile_hash, present |-> present,
                        prior |-> \E i \in 1..Len(zonefiles) :
                                     /\ zonefiles[i].zonefile_hash = zonefile_hash
                                     /\ zonefiles[i].present]]
    /\ cat_local' = [cat_local EXCEPT ![t] = NoLocal]
    /\ cat_pc' = [cat_pc EXCEPT ![t] = "bits"]
    /\ UNCHANGED <<zonefiles_seq, ZONEFILE_INV, cat_mode, notCat>>

\* atlasdb_set_zonefile_present of a hash without rows: the UPDATE changes
\* nothing, zfbits is empty and max(bit_indexes) raises ValueError in
\* atlas_inventory_test_zonefile_bits: the call returns no value.
SetPresentNoRows(t, zonefile_hash, present) ==
    /\ CatMayCall(t)
    /\ atlasdb_get_zonefile_bits(zonefiles, zonefile_hash) = <<>>
    /\ cat_call' = [cat_call EXCEPT ![t] = [op |-> "set_zonefile_present",
                        zonefile_hash |-> zonefile_hash, present |-> present,
                        prior |-> FALSE, raised |-> TRUE]]
    /\ cat_pc' = [cat_pc EXCEPT ![t] = IF cat_mode = "conc" THEN "done" ELSE "idle"]
    /\ UNCHANGED <<zonefiles, zonefiles_seq, ZONEFILE_INV, cat_local, cat_mode, notCat>>

\* zfbits = atlasdb_get_zonefile_bits( zonefile_hash )
CatGetBits(t) ==
    /\ cat_pc[t] = "bits"
    /\ cat_local' = [cat_local EXCEPT ![t].zfbits =
                        atlasdb_get_zonefile_bits(zonefiles, cat_call[t].zonefile_hash)]
    /\ cat_pc' = [cat_pc EXCEPT ![t] = "read"]
    /\ UNCHANGED <<zonefiles, zonefiles_seq, ZONEFILE_INV, cat_call, cat_mode, notCat>>

\* inv_vec = ZONEFILE_INV[:]  (and, in set_zonefile_present, was_present)
CatReadInv(t) ==
    /\ cat_pc[t] = "read"
    /\ cat_local' = [cat_local EXCEPT ![t].inv_vec = ZONEFILE_INV,
                        ![t].was_present =
                            IF cat_call[t].op = "set_zonefile_present"
                            THEN atlas_inventory_test_zonefile_bits(ZONEFILE_INV, cat_local[t].zfbits)
                            ELSE None]
    /\ cat_pc' = [cat_pc EXCEPT ![t] = "write"]
    /\ UNCHANGED <<zonefiles, zonefiles_seq, ZONEFILE_INV, cat_call, cat_mode, notCat>>

\* ZONEFILE_INV = atlas_inventory_flip_zonefile_bits( inv_vec, zfbits, present ),
\* and the return (of was_present, in set_zonefile_present)
CatWriteInv(t) ==
    /\ cat_pc[t] = "write"
    /\ ZONEFILE_INV' = atlas_inventory_flip_zonefile_bits(
                          cat_local[t].inv_vec, cat_local[t].zfbits, cat_call[t].present)
    /\ cat_call' = [cat_call EXCEPT ![t] = ("ret" :> cat_local[t].was_present) @@ @]
    /\ cat_local' = [cat_local EXCEPT ![t] = NoLocal]
    /\ cat_pc' = [cat_pc EXCEPT ![t] = IF cat_mode = "conc" THEN "done" ELSE "idle"]
    /\ UNCHANGED <<zonefiles, zonefiles_seq, cat_mode, notCat>>

CatInit ==
    /\ zonefiles = <<>>
    /\ zonefiles_seq = 0
    /\ ZONEFILE_INV = <<>>
    /\ cat_pc = [t \in CatThreads |-> "idle"]
    /\ cat_call = [t \in CatThreads |-> NoCall]
    /\ cat_local = [t \in CatThreads |-> NoLocal]
    /\ cat_mode = "serial"
    /\ PEER_TABLE = <<>>
    /\ peers = {}
    /\ now = 0
    /\ rpc_last = NoCall
    /\ NodeStopped

\* The catalog operations, run one at a time (cat_mode stays "serial").
CatNext ==
    \E t \in CatThreads :
        \/ \E h \in Hashes, p \in BOOLEAN, b \in Blocks : AddInfoInsert(t, h, p, b)
        \/ \E h \in Hashes, p \in BOOLEAN : SetPresentUpdate(t, h, p)
        \/ \E h \in Hashes, p \in BOOLEAN : SetPresentNoRows(t, h, p)
        \/ CatGetBits(t)
        \/ CatReadInv(t)
        \/ CatWriteInv(t)

SpecCatalog == CatInit /\ [][CatNext]_vars

\* From a state serial operations lead to, every thread calls one operation
\* and the calls run concurrently, interleaved at every statement.
CatConcStart ==
    /\ cat_mode = "serial"
    /\ \A u \in CatThreads : CatIdle(u)
    /\ cat_mode' = "conc"
    /\ cat_call' = [t \in CatThreads |-> NoCall]
    /\ UNCHANGED <<zonefiles, zonefiles_seq, ZONEFILE_INV, cat_pc, cat_local, notCat>>

CatConcNext == CatNext \/ CatConcStart

SpecCatalogConc == CatInit /\ [][CatConcNext]_vars

CatAllDone == \A t \in CatThreads : cat_pc[t] = "done"

\* Bit b (zero-based) of inventory vector inv, bits beyond its end being 0
InvBit(inv, b) == b \div 8 < Len(inv) /\ BitAnd(inv[b \div 8 + 1], 7 - (b % 8))

\* C2 (as stated): once the operations have run, one at a time, for every hash
\* with at least one row the in-RAM inventory tests true at the hash's bits
\* iff some row of the hash is present.
C2_BitmapMatchesCatalog ==
    (\A t \in CatThreads : CatIdle(t)) =>
        \A h \in Hashes :
            LET rows == RowsOfHash(zonefiles, h)
            IN rows # <<>> =>
                 (atlas_inventory_test_zonefile_bits(ZONEFILE_INV, atlasdb_get_zonefile_bits(zonefiles, h))
                    <=> \E i \in 1..Len(rows) : rows[i].present)

\* C3 (as stated): when the threads have concurrently run one operation each,
\* on different hashes, the in-RAM inventory reflects every one of the updates:
\* each bit of each thread's hash equals the presence that thread wrote.
C3_NoLostUpdate ==
    (/\ CatAllDone
     /\ \A t, u \in CatThreads : t # u => cat_call[t].zonefile_hash # cat_call[u].zonefile_hash)
    => \A t \in CatThreads :
          LET zfbits == atlasdb_get_zonefile_bits(zonefiles, cat_call[t].zonefile_hash)
          IN \A i \in 1..Len(zfbits) : InvBit(ZONEFILE_INV, zfbits[i]) = cat_call[t].present

\* C23 (as stated): all the catalog rows of one hash have the same value of
\* present.
C23_DuplicateRowsTrackPresence ==
    \A i, j \in 1..Len(zonefiles) :
        zonefiles[i].zonefile_hash = zonefiles[j].zonefile_hash
        => zonefiles[i].present = zonefiles[j].present

\* C26 (as stated): a call of atlasdb_set_zonefile_present that has returned
\* returned the prior presence of the hash: true iff some row of the hash
\* was present when the call began.
C26_ReturnsPriorPresence ==
    \A t \in CatThreads :
        (cat_call[t].op = "set_zonefile_present" /\ CatIdle(t))
        => /\ "ret" \in DOMAIN cat_call[t]
           /\ cat_call[t].ret = cat_call[t].prior

(***************************************************************************)
(* Synchronizing the catalog with the name database: atlasdb_init on an    *)
(* existing database (a restart of the node) and atlasdb_sync_zonefiles.   *)
(* The name database holds the hash lists of blocks 1..tip; tip, and what  *)
(* is_zonefile_cached says of each hash, are inputs of each call.  No peer *)
(* seeds are given.                                                        *)
(***************************************************************************)
MaxSeq == 9              \* rows ever inserted into table "zonefiles", over all restarts

\* The hash lists of the blocks of the name database, by block height
Ledger == << <<"h1", "h2">>, <<"h1">> >>

\* db.get_value_hashes_at( block_height )
get_value_hashes_at(block_height) ==
    IF block_height \in 1..Len(Ledger) THEN Ledger[block_height] ELSE <<>>

\* DELETE FROM zonefiles WHERE block_height = ?
atlasdb_zonefile_block_reset(rows, drop_block) ==
    SelectSeq(rows, LAMBDA r : r.block_height # drop_block)

\* SELECT MAX(block_height) FROM zonefiles (None of an empty table becomes 0)
atlasdb_get_lastblock(rows) ==
    IF rows = <<>> THEN 0
    ELSE CHOOSE b \in { rows[i].block_height : i \in 1..Len(rows) } :
            \A i \in 1..Len(rows) : rows[i].block_height <= b

\* atlasdb_queue_zonefiles: atlasdb_add_zonefile_info for every hash of every
\* block of start_block..tip, in order.  cat is [rows, seq, inv].
RECURSIVE atlasdb_queue_zonefiles(_, _, _, _, _)
atlasdb_queue_zonefiles(cat, start_block, tip, k, present_of) ==
    LET zonefile_hashes == get_value_hashes_at(start_block)
    IN IF start_block > tip THEN cat
       ELSE IF k > Len(zonefile_hashes)
       THEN atlasdb_queue_zonefiles(cat, start_block + 1, tip, 1, present_of)
       ELSE LET zfhash == zonefile_hashes[k]
                rows == InsertZonefileRow(cat.rows, cat.seq, zfhash, present_of[zfhash],
                                          start_block)
            IN atlasdb_queue_zonefiles(
                   [rows |-> rows, seq |-> cat.seq + 1,
                    inv |-> atlas_inventory_flip_zonefile_bits(
                                cat.inv, atlasdb_get_zonefile_bits(rows, zfhash),
                                present_of[zfhash])],
                   start_block, tip, k + 1, present_of)

\* atlasdb_zonefile_inv_length: MAX(inv_index) + 1, or 0 of an empty table
atlasdb_zonefile_inv_length(rows) ==
    IF rows = <<>> THEN 0 ELSE rows[Len(rows)].inv_index + 1

\* atlas_make_zonefile_inventory(0, bit_length): the present flags of the
\* first bit_length rows (SELECT * FROM zonefiles LIMIT ? OFFSET 0), padded
\* with False to a multiple of 8 and packed, first row in the highest bit
atlas_make_zonefile_inventory(rows, bit_length) ==
    LET n == IF Len(rows) < bit_length THEN Len(rows) ELSE bit_length
        bool_vec(i) == i <= n /\ rows[i].present
    IN [j \in 1..((n + 7) \div 8) |->
           LET RECURSIVE Pack(_)
               Pack(m) == IF m = 8 THEN 0
                          ELSE (IF bool_vec(8 * (j - 1) + m + 1) THEN Pow2(7 - m) ELSE 0)
                               + Pack(m + 1)
           IN Pack(0)]

\* How many rows a call of atlasdb_queue_zonefiles inserts
RECURSIVE NumQueued(_, _)
NumQueued(start_block, tip) ==
    IF start_block > tip THEN 0
    ELSE Len(get_value_hashes_at(start_block)) + NumQueued(start_block + 1, tip)

\* atlasdb_init when the database exists: drop the rows of the last block,
\* queue the blocks from there to the tip, cache the inventory.  The process
\* has just started: ZONEFILE_INV is None while the rows are queued.
atlasdb_init(tip, present_of) ==
    LET atlasdb_last_block == atlasdb_get_lastblock(zonefiles)
        kept == atlasdb_zonefile_block_reset(zonefiles, atlasdb_last_block)
        cat == atlasdb_queue_zonefiles([rows |-> kept, seq |-> zonefiles_seq, inv |-> <<>>],
                                       atlasdb_last_block, tip, 1, present_of)
    IN /\ tip >= atlasdb_last_block
       /\ zonefiles_seq + NumQueued(atlasdb_last_block, tip) <= MaxSeq
       /\ zonefiles' = cat.rows
       /\ zonefiles_seq' = cat.seq
       /\ ZONEFILE_INV' = atlas_make_zonefile_inventory(
                              cat.rows, atlasdb_zonefile_inv_length(cat.rows))
       /\ rpc_last' = [op |-> "atlasdb_init", start_block |-> atlasdb_last_block,
                       tip |-> tip, kept |-> Len(kept)]
       /\ UNCHANGED <<cat_pc, cat_call, cat_local, cat_mode, peerVars, zonefile_queue,
                      lockVars, runVars, fetch, crawler>>

\* atlasdb_sync_zonefiles(db, start_block)
atlasdb_sync_zonefiles(start_block, tip, present_of) ==
    LET cat == atlasdb_queue_zonefiles(
                   [rows |-> zonefiles, seq |-> zonefiles_seq, inv |-> ZONEFILE_INV],
                   start_block, tip, 1, present_of)
    IN /\ tip >= atlasdb_get_lastblock(zonefiles)
       /\ start_block <= tip
       /\ zonefiles_seq + NumQueued(start_block, tip) <= MaxSeq
       /\ zonefiles' = cat.rows
       /\ zonefiles_seq' = cat.seq
       /\ ZONEFILE_INV' = cat.inv
       /\ rpc_last' = [op |-> "atlasdb_sync_zonefiles", start_block |-> start_block,
                       tip |-> tip, kept |-> Len(zonefiles)]
       /\ UNCHANGED <<cat_pc, cat_call, cat_local, cat_mode, peerVars, zonefile_queue,
                      lockVars, runVars, fetch, crawler>>

\* atlasdb_init created the database: every block from the first is queued
SyncInit ==
    /\ \E tip \in 1..Len(Ledger), present_of \in [Hashes -> BOOLEAN] :
          LET cat == atlasdb_queue_zonefiles([rows |-> <<>>, seq |-> 0, inv |-> <<>>],
                                             1, tip, 1, present_of)
          IN /\ zonefiles = cat.rows
             /\ zonefiles_seq = cat.seq
             /\ ZONEFILE_INV = atlas_make_zonefile_inventory(
                                   cat.rows, atlasdb_zonefile_inv_length(cat.rows))
    /\ cat_pc = [t \in CatThreads |-> "idle"]
    /\ cat_call = [t \in CatThreads |-> NoCall]
    /\ cat_local = [t \in CatThreads |-> NoLocal]
    /\ cat_mode = "serial"
    /\ PEER_TABLE = <<>>
    /\ peers = {}
    /\ now = 0
    /\ rpc_last = NoCall
    /\ NodeStopped

SyncNext ==
    \E tip \in 1..Len(Ledger), present_of \in [Hashes -> BOOLEAN] :
        \/ atlasdb_init(tip, present_of)
        \/ \E start_block \in 1..Len(Ledger) : atlasdb_sync_zonefiles(start_block, tip, present_of)

SpecSync == SyncInit /\ [][SyncNext]_vars

\* The rows of a block, and the highest inv_index of the table (0 if empty)
RowsAtBlock(rows, b) == SelectSeq(rows, LAMBDA r : r.block_height = b)
MaxInvIndex(rows) == IF rows = <<>> THEN 0 ELSE rows[Len(rows)].inv_index

C25_SyncMatchesLedger ==
    rpc_last.op = "atlasdb_sync_zonefiles"
    => \A b \in rpc_last.start_block..rpc_last.tip :
          LET rows == RowsAtBlock(zonefiles, b)
          IN [i \in 1..Len(rows) |-> rows[i].zonefile_hash] = get_value_hashes_at(b)

MaxBit == 17             \* highest bit index given to the bit vector operations
MaxVecLen == 2           \* bytes of the vectors they are given

\* The byte vectors the operations are applied to
VecBytes == {0, 129, 255}
Vectors == UNION { [1..n -> VecBytes] : n \in 0..MaxVecLen }

\* atlas_inventory_set_zonefile_bits (operation = TRUE) and
\* atlas_inventory_clear_zonefile_bits (operation = FALSE) of the vector,
\* called once
FlipBits(bit_indexes, operation) ==
    /\ rpc_last = NoCall
    /\ rpc_last' = [op |-> IF operation THEN "set_zonefile_bits" ELSE "clear_zonefile_bits",
                    inv_vec |-> ZONEFILE_INV, bit_indexes |-> bit_indexes,
                    ret |-> atlas_inventory_flip_zonefile_bits(ZONEFILE_INV, bit_indexes,
                                                               operation)]
    /\ UNCHANGED <<catVars, peerVars, zonefile_queue, lockVars, runVars, fetch, crawler>>

BitsInit ==
    /\ zonefiles = <<>>
    /\ zonefiles_seq = 0
    /\ ZONEFILE_INV \in Vectors
    /\ cat_pc = [t \in CatThreads |-> "idle"]
    /\ cat_call = [t \in CatThreads |-> NoCall]
    /\ cat_local = [t \in CatThreads |-> NoLocal]
    /\ cat_mode = "serial"
    /\ PEER_TABLE = <<>>
    /\ peers = {}
    /\ now = 0
    /\ rpc_last = NoCall
    /\ NodeStopped

BitsNext ==
    \E n \in 1..2 : \E bit_indexes \in [1..n -> 0..MaxBit], operation \in BOOLEAN :
        FlipBits(bit_indexes, operation)

SpecBits == BitsInit /\ [][BitsNext]_vars

\* C30 (as stated): set returns a vector on which test of the bits is true,
\* clear one on which the test of each single bit is false; both leave every
\* other bit as it was, and extend the vector only with zero bytes and only
\* as far as the byte that holds the highest bit.
C30_SetClearTest ==
    rpc_last.op \in {"set_zonefile_bits", "clear_zonefile_bits"}
    => LET vec == rpc_last.inv_vec
           bits == rpc_last.bit_indexes
           ret == rpc_last.ret
           listed == { bits[i] : i \in 1..Len(bits) }
           top == CHOOSE m \in listed : \A b \in listed : b <= m
       IN /\ rpc_last.op = "set_zonefile_bits"
               => atlas_inventory_test_zonefile_bits(ret, bits)
          /\ rpc_last.op = "clear_zonefile_bits"
               => \A b \in listed : ~atlas_inventory_test_zonefile_bits(ret, <<b>>)
          /\ \A b \in listed : InvBit(ret, b) = (rpc_last.op = "set_zonefile_bits")
          /\ \A b \in (0..(8 * Len(ret) - 1)) \ listed : InvBit(ret, b) = InvBit(vec, b)
          /\ Len(ret) = (IF Len(vec) > top \div 8 + 1 THEN Len(vec) ELSE top \div 8 + 1)
          /\ \A i \in 1..Len(ret) : ret[i] \in 0..255

\* two bits were set, the higher one beyond the end of the vector
C30_Witness ==
    /\ rpc_last.op = "set_zonefile_bits"
    /\ Len(rpc_last.bit_indexes) = 2
    /\ rpc_last.bit_indexes[1] # rpc_last.bit_indexes[2]
    /\ Len(rpc_last.inv_vec) = 1
    /\ Len(rpc_last.ret) = 3

(***************************************************************************)
(* Peer table.                                                             *)
(***************************************************************************)
\* atlas_init_peer_info: a new peer table entry
atlas_init_peer_info(blacklisted, whitelisted) ==
    [time |-> <<>>, zonefile_inv |-> <<>>,
     blacklisted |-> blacklisted, whitelisted |-> whitelisted]

\* peer_table with the entry of peer_hostport set to info
PeerTablePut(peer_table, peer_hostport, info) ==
    [q \in DOMAIN peer_table \cup {peer_hostport} |->
        IF q = peer_hostport THEN info ELSE peer_table[q]]

\* del peer_table[peer_hostport]
PeerTableDel(peer_table, peer_hostport) ==
    [q \in DOMAIN peer_table \ {peer_hostport} |-> peer_table[q]]

\* The entries of the history younger than the lifetime, in order
RECURSIVE FreshTimes(_, _)
FreshTimes(times, t_now) ==
    IF times = <<>> THEN <<>>
    ELSE (IF Head(times)[1] + PEER_LIFETIME_INTERVAL < t_now THEN <<>> ELSE <<Head(times)>>)
         \o FreshTimes(Tail(times), t_now)

\* atlas_peer_update_health: append (now, received_response) to the peer's
\* history and drop what is older than the lifetime; nothing for an unknown peer
atlas_peer_update_health(peer_table, peer_hostport, received_response, t_now) ==
    IF peer_hostport \notin DOMAIN peer_table THEN peer_table
    ELSE [peer_table EXCEPT ![peer_hostport].time =
             Append(FreshTimes(@, t_now), <<t_now, received_response>>)]

\* The peer table and directory atlasdb_init leaves for the given seed peers
\* (slot_of: the slot each seed was given); seeds are whitelisted.
PeerInit(seeds, slot_of) ==
    /\ PEER_TABLE = [q \in seeds |-> atlas_init_peer_info(FALSE, TRUE)]
    /\ peers = {[peer_hostport |-> q, peer_slot |-> slot_of[q], discovery_time |-> 0] : q \in seeds}
    /\ now = 0

(***************************************************************************)
(* RPC client operations.  A reply is what the remote peer's RPC server    *)
(* sent back: conn is FALSE when the call raised (socket error), dict when *)
(* the reply is a dict, error when it has an 'error' key, has_status and   *)
(* status tell of its 'status' key, has_payload and type_ok of the field   *)
(* the operation asks for; payload is that field's value (BadType: a value *)
(* of a type the schema forbids, such as a number).                        *)
(***************************************************************************)
ReplyShapes ==
    { r \in [conn : BOOLEAN, dict : BOOLEAN, error : BOOLEAN, has_status : BOOLEAN,
              status : BOOLEAN, has_payload : BOOLEAN, type_ok : BOOLEAN] :
        /\ ~r.conn => ~r.dict
        /\ ~r.dict => ~r.error /\ ~r.has_status /\ ~r.has_payload
        /\ ~r.has_status => ~r.status
        /\ ~r.has_payload => ~r.type_ok }

BadType == "badtype"

MkReply(r, payload) ==
    [conn |-> r.conn, dict |-> r.dict, error |-> r.error, has_status |-> r.has_status,
     status |-> r.status, has_payload |-> r.has_payload, type_ok |-> r.type_ok,
     payload |-> payload]

RepliesWith(payloads) ==
    UNION { IF r.has_payload /\ r.type_ok
            THEN {MkReply(r, pl) : pl \in payloads}
            ELSE {MkReply(r, IF r.has_payload THEN BadType ELSE None)} : r \in ReplyShapes }

\* Sequences without repetition over S, of length at most n
RECURSIVE ListsOver(_, _)
ListsOver(S, n) ==
    IF n = 0 THEN {<<>>}
    ELSE LET shorter == ListsOver(S, n - 1)
             longer == UNION { { Append(l, x) : x \in S \ {l[i] : i \in 1..Len(l)} } : l \in shorter }
         IN shorter \cup longer

\* The values of a byte whose bits beyond the first InvBits are clear
InvByteValues == { k * Pow2(8 - InvBits) : k \in 0..(Pow2(InvBits) - 1) }
InvStrings == {<<>>} \cup { <<v>> : v \in InvByteValues } \cup { <<v, 0>> : v \in InvByteValues }

GetinfoReplies == RepliesWith({"current", "old"})
NeighborsReplies == RepliesWith(ListsOver(Hostports \cup {MyHostport}, NUM_NEIGHBORS + 1))
InventoryReplies == RepliesWith({[b64_ok |-> b, inv |-> v] : b \in BOOLEAN, v \in InvStrings})
ZonefilesReplies ==
    RepliesWith(UNION { [hs -> BOOLEAN] : hs \in SUBSET Hashes })

\* What an operation did: it returned None or a value, or raised; and the
\* response flag it passed to atlas_peer_update_health ("none": no such call).
Flag(b) == IF b THEN "true" ELSE "false"

Outcome(kind, value, health) == [kind |-> kind, value |-> value, health |-> health]

\* atlas_peer_getinfo
atlas_peer_getinfo(reply) ==
    LET \* res after the try block: rpc.getinfo()'s value unless the call raised
        \* or the reply has an 'error' key (res = None)
        res_is_none == ~reply.conn \/ (reply.dict /\ reply.error)
    IN IF res_is_none THEN Outcome("None", None, "false")
       ELSE Outcome("value", reply, "true")

\* atlas_peer_get_neighbors
atlas_peer_get_neighbors(reply) ==
    IF ~reply.conn THEN Outcome("None", None, "false")
    ELSE IF ~reply.dict THEN Outcome("raise", None, "none")      \* peer_list['peers']: TypeError
    ELSE IF reply.error THEN Outcome("None", None, "false")
    ELSE IF ~reply.has_payload THEN Outcome("raise", None, "none")   \* KeyError 'peers'
    ELSE Outcome("value", reply.payload, "true")

\* atlas_peer_get_zonefile_inventory_range, for a request of bit_count bits
atlas_peer_get_zonefile_inventory_range(reply, bit_count) ==
    IF ~reply.conn THEN Outcome("None", None, "false")
    ELSE IF ~reply.dict THEN Outcome("raise", None, "none")      \* zf_inv.has_key: AttributeError
    ELSE IF reply.error THEN Outcome("None", None, Flag(reply.has_status /\ reply.status))
    ELSE IF ~reply.has_payload \/ ~reply.type_ok
         \* zf_inv['inv'] is missing (KeyError), or atlas_inventory_to_string
         \* takes len() of a value that has none (TypeError)
         THEN Outcome("raise", None, Flag(reply.has_status /\ reply.status))
    ELSE Outcome("value", reply.payload, Flag(reply.has_status /\ reply.status))

\* atlas_get_zonefiles
atlas_get_zonefiles(reply) ==
    IF ~reply.conn THEN Outcome("None", None, "false")
    ELSE IF ~reply.dict THEN Outcome("raise", None, "none")      \* zf_payload.keys(): AttributeError
    ELSE IF reply.error THEN Outcome("None", None, "false")
    ELSE IF ~reply.has_payload THEN Outcome("raise", None, "true")   \* KeyError 'zonefiles'
    ELSE Outcome("value", reply.payload, "true")

(***************************************************************************)
(* The RPC client operations called one at a time against remote peers     *)
(* that answer anything.  rpc_last records the last call: the operation,   *)
(* the peer, the reply it got, what the operation did and the time.        *)
(***************************************************************************)
\* The catalog as atlasdb_init leaves it for an empty name database
CatEmpty ==
    /\ zonefiles = <<>>
    /\ zonefiles_seq = 0
    /\ ZONEFILE_INV = <<>>
    /\ cat_pc = [t \in CatThreads |-> "idle"]
    /\ cat_call = [t \in CatThreads |-> NoCall]
    /\ cat_local = [t \in CatThreads |-> NoLocal]
    /\ cat_mode = "serial"

RpcCall(op, peer_hostport, reply, out) ==
    /\ peer_hostport \in DOMAIN PEER_TABLE => Len(PEER_TABLE[peer_hostport].time) < MaxHistory
    /\ PEER_TABLE' = IF out.health = "none" THEN PEER_TABLE
                     ELSE atlas_peer_update_health(PEER_TABLE, peer_hostport,
                                                   out.health = "true", now)
    /\ rpc_last' = [op |-> op, peer_hostport |-> peer_hostport, reply |-> reply,
                    kind |-> out.kind, value |-> out.value, health |-> out.health, t |-> now]
    /\ UNCHANGED <<peers, now, notPeer>>

RpcGetinfo(peer_hostport, reply) ==
    RpcCall("getinfo", peer_hostport, reply, atlas_peer_getinfo(reply))

RpcGetNeighbors(peer_hostport, reply) ==
    RpcCall("get_neighbors", peer_hostport, reply, atlas_peer_get_neighbors(reply))

RpcGetInventory(peer_hostport, reply) ==
    RpcCall("get_inventory", peer_hostport, reply,
            atlas_peer_get_zonefile_inventory_range(reply, InvBits))

RpcGetZonefiles(peer_hostport, reply) ==
    RpcCall("get_zonefiles", peer_hostport, reply, atlas_get_zonefiles(reply))

\* time_now() moves on
Tick ==
    /\ now < MaxNow
    /\ now' = now + ClockStep
    /\ UNCHANGED <<PEER_TABLE, peers, rpc_last, notPeer>>

\* One seed peer is in the peer table; the other peer is unknown to it
RpcSeeds == {"p1"}

RpcInit ==
    /\ CatEmpty
    /\ \E slot_of \in [RpcSeeds -> Slots] : PeerInit(RpcSeeds, slot_of)
    /\ rpc_last = NoCall
    /\ NodeStopped

RpcNext ==
    \/ \E q \in Hostports : \E reply \in GetinfoReplies : RpcGetinfo(q, reply)
    \/ \E q \in Hostports : \E reply \in NeighborsReplies : RpcGetNeighbors(q, reply)
    \/ \E q \in Hostports : \E reply \in InventoryReplies : RpcGetInventory(q, reply)
    \/ \E q \in Hostports : \E reply \in ZonefilesReplies : RpcGetZonefiles(q, reply)
    \/ Tick

SpecRpc == RpcInit /\ [][RpcNext]_vars

\* The reply obeys the schema of the operation (an error reply does)
ObeysSchema(op, reply, bit_count) ==
    /\ reply.dict
    /\ \/ reply.error
       \/ /\ reply.has_payload /\ reply.type_ok
          /\ op = "getinfo" \/ reply.has_status
          /\ op \in {"get_inventory", "get_zonefiles"} => reply.status
          /\ op = "get_neighbors" => Len(reply.payload) <= NUM_NEIGHBORS
          /\ op = "get_inventory" =>
                /\ reply.payload.b64_ok
                /\ Len(reply.payload.inv) <= (bit_count \div 8) + (bit_count % 8)
          /\ op = "get_zonefiles" => \A h \in DOMAIN reply.payload : reply.payload[h]

Last(s) == s[Len(s)]

\* C7 (as stated): when the last call got a reply that violates the schema
\* of its operation, the operation returned None and the last entry of the
\* peer's health history is this call's, with responded = FALSE.
C7_SchemaViolationIsFailure ==
    (/\ rpc_last.op # None
     /\ rpc_last.reply.conn
     /\ rpc_last.peer_hostport \in DOMAIN PEER_TABLE
     /\ ~ObeysSchema(rpc_last.op, rpc_last.reply, InvBits))
    => /\ rpc_last.kind = "None"
       /\ rpc_last.health = "false"
       /\ Last(PEER_TABLE[rpc_last.peer_hostport].time) = <<rpc_last.t, FALSE>>

(***************************************************************************)
(* The peer directory (table "peers") and the peer table kept coherent     *)
(* with it: atlasdb_add_peer and atlasdb_remove_peer, called one at a      *)
(* time.  rpc_last records the last call and what it returned.             *)
(***************************************************************************)
\* SELECT peer_hostport FROM peers WHERE peer_slot = ?
SlotOccupants(rows, peer_slot) ==
    { r.peer_hostport : r \in { x \in rows : x.peer_slot = peer_slot } }

\* atlasdb_add_peer, with the slot the random nonce gave and, for every
\* peer, whether it would answer a ping
atlasdb_add_peer(peer_hostport, peer_slot, alive, ping_on_evict) ==
    LET known == peer_hostport \in DOMAIN PEER_TABLE
        occupants == SlotOccupants(peers, peer_slot)
        \* "for row in res: old_hostport = res['peer_hostport']" indexes the
        \* cursor, not the row: TypeError at the first row of the slot
        raised == ~known /\ ping_on_evict /\ occupants # {}
        \* so the loop ends normally only when the slot has no row
        old_hostports == {}
        declined == ~known /\ ping_on_evict /\ ~raised /\ \E old \in old_hostports : alive[old]
        inserts == ~known /\ ~raised /\ ~declined
        ret == IF raised THEN "raise" ELSE IF declined THEN "False" ELSE "True"
    IN /\ peers' = IF inserts
                   THEN { r \in peers : r.peer_hostport # peer_hostport }
                        \cup {[peer_hostport |-> peer_hostport, peer_slot |-> peer_slot,
                               discovery_time |-> now]}
                   ELSE peers
       /\ PEER_TABLE' = IF inserts
                        THEN PeerTablePut(PEER_TABLE, peer_hostport,
                                          atlas_init_peer_info(FALSE, FALSE))
                        ELSE PEER_TABLE
       /\ rpc_last' = [op |-> "add_peer", peer_hostport |-> peer_hostport,
                       peer_slot |-> peer_slot, occupants |-> occupants, alive |-> alive,
                       ping_on_evict |-> ping_on_evict, known |-> known, ret |-> ret]
       /\ UNCHANGED <<now, notPeer>>

\* atlasdb_remove_peer
atlasdb_remove_peer(peer_hostport) ==
    /\ peers' = { r \in peers : r.peer_hostport # peer_hostport }
    /\ PEER_TABLE' = IF /\ peer_hostport \in DOMAIN PEER_TABLE
                        /\ ~PEER_TABLE[peer_hostport].whitelisted
                        /\ ~PEER_TABLE[peer_hostport].blacklisted
                     THEN PeerTableDel(PEER_TABLE, peer_hostport)
                     ELSE PEER_TABLE
    /\ rpc_last' = [op |-> "remove_peer", peer_hostport |-> peer_hostport]
    /\ UNCHANGED <<now, notPeer>>

AddPeerInit ==
    /\ CatEmpty
    /\ \E seeds \in SUBSET Hostports : \E slot_of \in [seeds -> Slots] : PeerInit(seeds, slot_of)
    /\ rpc_last = NoCall
    /\ NodeStopped

AddPeerNext ==
    \/ \E q \in Hostports, peer_slot \in Slots, alive \in [Hostports -> BOOLEAN],
          ping_on_evict \in BOOLEAN : atlasdb_add_peer(q, peer_slot, alive, ping_on_evict)
    \/ \E q \in Hostports : atlasdb_remove_peer(q)
    \/ Tick

SpecAddPeer == AddPeerInit /\ [][AddPeerNext]_vars

\* C10 (as stated): after atlasdb_add_peer(B) with eviction probing, for a B
\* that was not in the peer table and whose slot had occupants, B is in the
\* directory and the peer table iff no occupant answers ping; and if some
\* occupant answers, the call returned False, every occupant is still in the
\* directory and B is in neither.
C10_InsertIffOccupantsDead ==
    (/\ rpc_last.op = "add_peer"
     /\ rpc_last.ping_on_evict
     /\ ~rpc_last.known
     /\ rpc_last.occupants # {})
    => LET B == rpc_last.peer_hostport
           in_directory == \E r \in peers : r.peer_hostport = B
           in_table == B \in DOMAIN PEER_TABLE
           answered == \E old \in rpc_last.occupants : rpc_last.alive[old]
       IN /\ (in_directory /\ in_table) <=> ~answered
          /\ answered => /\ rpc_last.ret = "False"
                          /\ \A old \in rpc_last.occupants : \E r \in peers : r.peer_hostport = old
                          /\ ~in_directory /\ ~in_table

\* C36 (as stated): after any sequence of atlasdb_add_peer and
\* atlasdb_remove_peer calls, the keys of the peer table are the hostports of
\* the peer directory.
C36_PeerTableMatchesDirectory ==
    DOMAIN PEER_TABLE = { r.peer_hostport : r \in peers }

(***************************************************************************)
(* The push queue and the zonefile pusher.  The catalog is what            *)
(* atlasdb_init loaded; the peers' mirrored inventories are set by         *)
(* atlas_peer_set_zonefile_inventory.                                      *)
(***************************************************************************)
\* The catalog after atlasdb_add_zonefile_info for each of infos in turn
RECURSIVE CatalogAfter(_)
CatalogAfter(infos) ==
    IF infos = <<>> THEN [rows |-> <<>>, inv |-> <<>>]
    ELSE LET before == CatalogAfter(SubSeq(infos, 1, Len(infos) - 1))
             info == infos[Len(infos)]
             rows == InsertZonefileRow(before.rows, Len(before.rows), info.zonefile_hash,
                                       info.present, info.block_height)
         IN [rows |-> rows,
             inv |-> atlas_inventory_flip_zonefile_bits(
                         before.inv, atlasdb_get_zonefile_bits(rows, info.zonefile_hash),
                         info.present)]

\* atlasdb_init found infos in the name database
CatLoaded(infos) ==
    /\ zonefiles = CatalogAfter(infos).rows
    /\ zonefiles_seq = Len(infos)
    /\ ZONEFILE_INV = CatalogAfter(infos).inv
    /\ cat_pc = [t \in CatThreads |-> "idle"]
    /\ cat_call = [t \in CatThreads |-> NoCall]
    /\ cat_local = [t \in CatThreads |-> NoLocal]
    /\ cat_mode = "serial"

\* atlas_peer_set_zonefile_inventory
atlas_peer_set_zonefile_inventory(peer_hostport, peer_inv) ==
    /\ PEER_TABLE' = IF peer_hostport \in DOMAIN PEER_TABLE
                     THEN [PEER_TABLE EXCEPT ![peer_hostport].zonefile_inv = peer_inv]
                     ELSE PEER_TABLE
    /\ rpc_last' = [op |-> "set_zonefile_inventory"]
    /\ UNCHANGED <<peers, now, zonefile_queue, notPush>>

\* atlas_zonefile_find_push_peers, given the bits of the hash
atlas_zonefile_find_push_peers(peer_table, zonefile_bits) ==
    { q \in DOMAIN peer_table :
        atlas_inventory_test_zonefile_bits(peer_table[q].zonefile_inv, zonefile_bits) }

\* atlas_zonefile_push_enqueue
atlas_zonefile_push_enqueue(zonefile_hash, zonefile_data) ==
    LET bits == atlasdb_get_zonefile_bits(zonefiles, zonefile_hash)
        push_peers == atlas_zonefile_find_push_peers(PEER_TABLE, bits)
        res == /\ Len(bits) # 0
               /\ push_peers # {}
               /\ Len(zonefile_queue) < MAX_QUEUED_ZONEFILES
    IN /\ zonefile_queue' = IF res
                            THEN Append(zonefile_queue, [zonefile_hash |-> zonefile_hash,
                                                         zonefile_data |-> zonefile_data])
                            ELSE zonefile_queue
       /\ rpc_last' = [op |-> "push_enqueue", zonefile_hash |-> zonefile_hash,
                       ret |-> IF Len(bits) = 0 THEN "None" ELSE IF res THEN "True" ELSE "False"]
       /\ UNCHANGED <<peerVars, notPush>>

\* AtlasZonefilePusher.step: dequeue, parse, find the peers, push to each.
\* atlas_zonefile_push never sets status, so it records responded = False.
PusherStep ==
    LET dequeued == zonefile_queue # <<>>
        zfinfo == Head(zonefile_queue)
        parsed == dequeued /\ zfinfo.zonefile_data = "zonefile"
        zfbits == IF parsed THEN atlasdb_get_zonefile_bits(zonefiles, zfinfo.zonefile_hash)
                  ELSE <<>>
        push_peers == IF Len(zfbits) = 0 THEN {}
                      ELSE atlas_zonefile_find_push_peers(PEER_TABLE, zfbits)
    IN /\ \A q \in push_peers : Len(PEER_TABLE[q].time) < MaxHistory
       /\ zonefile_queue' = IF dequeued THEN Tail(zonefile_queue) ELSE zonefile_queue
       /\ PEER_TABLE' = [q \in DOMAIN PEER_TABLE |->
                            IF q \in push_peers
                            THEN atlas_peer_update_health(PEER_TABLE, q, FALSE, now)[q]
                            ELSE PEER_TABLE[q]]
       /\ rpc_last' = [op |-> "pusher_step", dequeued |-> dequeued, parsed |-> parsed,
                       zfbits |-> zfbits, sent |-> push_peers]
       /\ UNCHANGED <<peers, now, notPush>>

\* The hashes and presence the name database holds when the node starts
InitInfos ==
    UNION { [1..n -> [zonefile_hash : Hashes, present : BOOLEAN, block_height : Blocks]] :
                n \in 0..InvBits }

PushInit ==
    /\ \E infos \in InitInfos : CatLoaded(infos)
    /\ PeerInit(Hostports, [q \in Hostports |-> 0])
    /\ rpc_last = NoCall
    /\ NodeStopped

PushNext ==
    \/ \E q \in Hostports, peer_inv \in { inv \in InvStrings : Len(inv) <= 1 } :
            atlas_peer_set_zonefile_inventory(q, peer_inv)
    \/ \E h \in Hashes, zonefile_data \in {"zonefile", "garbled"} :
            atlas_zonefile_push_enqueue(h, zonefile_data)
    \/ PusherStep

SpecPush == PushInit /\ [][PushNext]_vars

\* C4 (as stated): in a pusher step that dequeued a record whose hash has
\* bits, put_zonefiles was sent to a peer of the peer table iff the peer's
\* mirrored inventory does not have all of these bits set.
C4_PushToPeersThatLack ==
    (rpc_last.op = "pusher_step" /\ rpc_last.parsed /\ Len(rpc_last.zfbits) # 0)
    => \A q \in DOMAIN PEER_TABLE :
          q \in rpc_last.sent
          <=> ~atlas_inventory_test_zonefile_bits(PEER_TABLE[q].zonefile_inv, rpc_last.zfbits)

(***************************************************************************)
(* The zonefile fetcher: AtlasZonefileCrawler.step, one loop iteration per *)
(* action.  fetch holds the locals of the step (missing_zfinfo,            *)
(* zonefile_hashes, the ranked peers still to ask for the current hash)    *)
(* and records the hashes attempted, in order, and the bodies stored.      *)
(***************************************************************************)
\* atlas_find_missing_zonefile_availability
atlas_find_missing_zonefile_availability(rows, peer_table) ==
    LET missing == { i \in 1..Len(rows) : ~rows[i].present }
    IN [h \in { rows[i].zonefile_hash : i \in missing } |->
          LET mine == SelectSeq(RowsOfHash(rows, h), LAMBDA r : ~r.present)
              holders == { q \in DOMAIN peer_table :
                             \E k \in 1..Len(mine) :
                                 InvBit(peer_table[q].zonefile_inv, mine[k].inv_index - 1) }
          IN [indexes |-> [k \in 1..Len(mine) |-> mine[k].inv_index - 1],
              popularity |-> Cardinality(holders),
              peers |-> holders,
              tried_storage |-> mine[Len(mine)].tried_storage]]

\* The order of strings Python sorts host:port by
HostLess(a, b) == <<a, b>> \in {<<"me", "p1">>, <<"me", "p2">>, <<"p1", "p2">>}

\* atlas_rank_peers_by_health(peer_list, with_zero_requests=True): by
\* (responses / requests, hostport), largest first
RECURSIVE atlas_rank_peers_by_health(_, _)
atlas_rank_peers_by_health(peer_list, peer_table) ==
    LET responses(q) == Cardinality({ k \in 1..Len(peer_table[q].time) : peer_table[q].time[k][2] })
        requests(q) == IF Len(peer_table[q].time) = 0 THEN 1 ELSE Len(peer_table[q].time)
        Below(a, b) == \/ responses(a) * requests(b) < responses(b) * requests(a)
                       \/ /\ responses(a) * requests(b) = responses(b) * requests(a)
                          /\ HostLess(a, b)
    IN IF peer_list = {} THEN <<>>
       ELSE LET top == CHOOSE q \in peer_list : \A o \in peer_list \ {q} : Below(o, q)
            IN <<top>> \o atlas_rank_peers_by_health(peer_list \ {top}, peer_table)

\* atlasdb_set_zonefile_present, run alone: the catalog [rows, inv] after it
atlasdb_set_zonefile_present(cat, zonefile_hash, present) ==
    [rows |-> UpdateZonefilePresent(cat.rows, zonefile_hash, present),
     inv |-> atlas_inventory_flip_zonefile_bits(
                 cat.inv, atlasdb_get_zonefile_bits(cat.rows, zonefile_hash), present)]

\* The catalog after atlasdb_set_zonefile_present(h, True) for each h of hashes
RECURSIVE StoreAll(_, _)
StoreAll(cat, hashes) ==
    IF hashes = {} THEN cat
    ELSE LET h == CHOOSE x \in hashes : TRUE
         IN StoreAll(atlasdb_set_zonefile_present(cat, h, TRUE), hashes \ {h})

\* The step begins: the missing hashes and their availability are computed
\* under the peer table lock; zonefile_hashes = list(set(...)) lists them in
\* the order of the set, which is any order.
FetchStart(order) ==
    /\ fetch.pc = "idle"
    /\ fetch.steps < MaxFetchSteps
    /\ LET missing_zfinfo == atlas_find_missing_zonefile_availability(zonefiles, PEER_TABLE)
       IN /\ Len(order) = Cardinality(DOMAIN missing_zfinfo)
          /\ { order[k] : k \in 1..Len(order) } = DOMAIN missing_zfinfo
          /\ fetch' = [pc |-> "hash", missing_zfinfo |-> missing_zfinfo,
                       zonefile_hashes |-> order, peers |-> <<>>, attempts |-> <<>>,
                       stored |-> {}, raised |-> FALSE, steps |-> fetch.steps + 1]
    /\ UNCHANGED <<zonefiles, ZONEFILE_INV, PEER_TABLE, notFetch>>

\* The head of the while loop: the step returns when no hash is left; else
\* the first hash is tried from storage (unless that was tried before) and,
\* failing that, its peers are ranked.  from_storage is what the storage
\* drivers gave, rc what store_zonefile_to_storage returned.
FetchHash(from_storage, rc) ==
    /\ fetch.pc = "hash"
    /\ IF fetch.zonefile_hashes = <<>>
       THEN /\ fetch' = [fetch EXCEPT !.pc = "idle"]
            /\ UNCHANGED <<zonefiles, ZONEFILE_INV>>
       ELSE LET zfhash == Head(fetch.zonefile_hashes)
                info == fetch.missing_zfinfo[zfhash]
                try_storage == ~info.tried_storage
                \* atlasdb_set_zonefile_tried_storage(zfhash, True)
                tried == [i \in 1..Len(zonefiles) |->
                            IF try_storage /\ zonefiles[i].zonefile_hash = zfhash
                            THEN [zonefiles[i] EXCEPT !.tried_storage = TRUE]
                            ELSE zonefiles[i]]
                got == try_storage /\ from_storage = "zonefile" /\ rc
                cat == IF got
                       THEN atlasdb_set_zonefile_present([rows |-> tried, inv |-> ZONEFILE_INV],
                                                         zfhash, TRUE)
                       ELSE [rows |-> tried, inv |-> ZONEFILE_INV]
                done == got \/ info.peers = {}
            IN /\ zonefiles' = cat.rows
               /\ ZONEFILE_INV' = cat.inv
               /\ fetch' = [fetch EXCEPT
                               !.attempts = Append(@, zfhash),
                               !.zonefile_hashes = IF done THEN Tail(@) ELSE @,
                               !.pc = IF done THEN "hash" ELSE "peer",
                               !.peers = IF done THEN <<>>
                                         ELSE atlas_rank_peers_by_health(info.peers, PEER_TABLE)]
    /\ UNCHANGED <<PEER_TABLE, notFetch>>

\* One iteration of "for peer_hostport in peers" (or its end): ask the peer
\* for every hash still wanted that it claims, store what it sent, clear the
\* peer's bits of what it did not serve.  processed: the items of the reply
\* handled before parse_zone_file raised on a garbled body (all of them if
\* none raised); rc: what store_zonefile_to_storage returns for each hash.
FetchPeer(reply, rc, processed) ==
    /\ fetch.pc = "peer"
    /\ IF fetch.peers = <<>>
       THEN /\ processed = {}
            /\ fetch' = [fetch EXCEPT !.pc = "hash", !.zonefile_hashes = Tail(@)]
            /\ UNCHANGED <<zonefiles, ZONEFILE_INV, PEER_TABLE, rpc_last>>
       ELSE LET peer_hostport == Head(fetch.peers)
                wanted == { fetch.zonefile_hashes[k] : k \in 1..Len(fetch.zonefile_hashes) }
                peer_zonefile_hashes ==
                    { h \in wanted : peer_hostport \in fetch.missing_zfinfo[h].peers }
                out == atlas_get_zonefiles(reply)
                items == IF out.kind = "value" /\ reply.type_ok THEN DOMAIN reply.payload ELSE {}
                raised == \/ out.kind = "raise"
                          \/ out.kind = "value" /\ ~reply.type_ok    \* zonefiles.items()
                          \/ processed # items
                stored == { h \in processed \cap peer_zonefile_hashes : rc[h] }
                cat == StoreAll([rows |-> zonefiles, inv |-> ZONEFILE_INV], stored)
                health == IF out.health = "none" THEN PEER_TABLE
                          ELSE atlas_peer_update_health(PEER_TABLE, peer_hostport,
                                                        out.health = "true", now)
                RECURSIVE Cleared(_, _)
                \* atlas_peer_set_zonefile_status(peer_hostport, h, False) for each h
                Cleared(inv, hashes) ==
                    IF hashes = {} THEN inv
                    ELSE LET h == CHOOSE x \in hashes : TRUE
                         IN Cleared(atlas_inventory_flip_zonefile_bits(
                                        inv, fetch.missing_zfinfo[h].indexes, FALSE),
                                    hashes \ {h})
            IN IF peer_zonefile_hashes = {}
               THEN /\ processed = {}
                    /\ fetch' = [fetch EXCEPT !.peers = Tail(@)]
                    /\ UNCHANGED <<zonefiles, ZONEFILE_INV, PEER_TABLE, rpc_last>>
               ELSE /\ Len(PEER_TABLE[peer_hostport].time) < MaxHistory
                    /\ rpc_last' = [op |-> "get_zonefiles", peer_hostport |-> peer_hostport,
                                    zonefile_hashes |-> peer_zonefile_hashes,
                                    \* the hashes the reply holds with a body that verifies
                                    delivered |-> { h \in items : reply.payload[h] }]
                    /\ processed \subseteq items
                    /\ processed # items => \E h \in items \ processed : ~reply.payload[h]
                    /\ zonefiles' = cat.rows
                    /\ ZONEFILE_INV' = cat.inv
                    /\ PEER_TABLE' =
                          IF raised THEN health
                          ELSE [health EXCEPT ![peer_hostport].zonefile_inv =
                                   Cleared(@, peer_zonefile_hashes \ stored)]
                    /\ fetch' = [fetch EXCEPT
                                    !.pc = IF raised THEN "idle" ELSE @,
                                    !.raised = raised,
                                    !.peers = Tail(@),
                                    !.stored = @ \cup { [zonefile_hash |-> h,
                                                         verified |-> reply.payload[h]] :
                                                        h \in stored }]
    /\ UNCHANGED <<zonefiles_seq, cat_pc, cat_call, cat_local, cat_mode, peers, now,
                   zonefile_queue, lockVars, runVars, crawler>>

\* The peers' mirrored inventories are set before the fetcher's steps
FetchSetInventory(peer_hostport, peer_inv) ==
    /\ fetch.pc = "idle" /\ fetch.steps = 0
    /\ PEER_TABLE' = [PEER_TABLE EXCEPT ![peer_hostport].zonefile_inv = peer_inv]
    /\ UNCHANGED <<zonefiles, ZONEFILE_INV, fetch, notFetch>>

FetchInit ==
    /\ \E infos \in InitInfos : CatLoaded(infos)
    /\ PeerInit(Hostports, [q \in Hostports |-> 0])
    /\ rpc_last = NoCall
    /\ NodeStopped

FetchNext ==
    \/ \E order \in ListsOver(Hashes, Cardinality(Hashes)) : FetchStart(order)
    \/ \E from_storage \in {"error", "zonefile"}, rc \in BOOLEAN : FetchHash(from_storage, rc)
    \/ \E reply \in ZonefilesReplies :
         \E processed \in SUBSET (IF reply.type_ok THEN DOMAIN reply.payload ELSE {}) :
           \E rc \in [processed -> BOOLEAN] : FetchPeer(reply, rc, processed)
    \/ \E q \in Hostports, peer_inv \in { inv \in InvStrings : Len(inv) = 1 } :
            FetchSetInventory(q, peer_inv)

SpecFetch == FetchInit /\ [][FetchNext]_vars

\* C5 (as stated): in one fetcher step, a hash is never attempted before a
\* hash of strictly smaller popularity.
C5_RarestFirst ==
    \A i, j \in 1..Len(fetch.attempts) :
        i < j => fetch.missing_zfinfo[fetch.attempts[i]].popularity
                   <= fetch.missing_zfinfo[fetch.attempts[j]].popularity

\* C6 (as stated): every body the fetcher stored from a get_zonefiles reply,
\* marking its hash present, verified against that hash.
C6_StoredBodiesVerified ==
    \A m \in fetch.stored :
        m.verified /\ \E i \in 1..Len(zonefiles) : zonefiles[i].zonefile_hash = m.zonefile_hash

\* C21 (as stated): within one fetcher step, a batch sent to a peer holds no
\* hash whose body was stored successfully earlier in the same step.
C21_BatchOnlyMissing ==
    [][(fetch.pc = "peer" /\ fetch.peers # <<>> /\ fetch' # fetch)
       => LET peer_hostport == Head(fetch.peers)
              peer_zonefile_hashes ==
                  { fetch.zonefile_hashes[k] : k \in 1..Len(fetch.zonefile_hashes) }
                  \cap { h \in DOMAIN fetch.missing_zfinfo :
                            peer_hostport \in fetch.missing_zfinfo[h].peers }
          IN peer_zonefile_hashes \cap { m.zonefile_hash : m \in fetch.stored } = {}]_vars

\* C34 (as stated): when the fetcher has sent peer P a get_zonefiles request
\* that held hash h and has processed it, P being in the peer table, every
\* bit of h is clear in P's mirrored inventory if P did not deliver h, and
\* the bits of the hashes P delivered are what they were.  P delivered h when
\* its reply held h with a body that verifies against h.
C34_UndeliveredBitsCleared ==
    [][(/\ fetch.pc = "peer" /\ fetch.peers # <<>>
        /\ rpc_last' # rpc_last /\ rpc_last'.op = "get_zonefiles"
        /\ rpc_last'.peer_hostport \in DOMAIN PEER_TABLE')
       => LET P == rpc_last'.peer_hostport
              bits(h) == fetch.missing_zfinfo[h].indexes
          IN \A h \in rpc_last'.zonefile_hashes :
                IF h \in rpc_last'.delivered
                THEN \A k \in 1..Len(bits(h)) :
                        InvBit(PEER_TABLE'[P].zonefile_inv, bits(h)[k])
                          = InvBit(PEER_TABLE[P].zonefile_inv, bits(h)[k])
                ELSE \A k \in 1..Len(bits(h)) :
                        ~InvBit(PEER_TABLE'[P].zonefile_inv, bits(h)[k])]_vars

(***************************************************************************)
(* The threads of the node and the peer table lock.  The program of a      *)
(* thread lists, for one step of a worker (called by run(), which passes   *)
(* no peer table) or one call of an RPC-server operation, its calls of     *)
(* atlas_peer_table_lock and atlas_peer_table_unlock and its RPCs, each    *)
(* with the source line and the instructions that may follow: 0 is the     *)
(* return of the step, -1 an exception that leaves it.  An RPC has the     *)
(* line of the "assert not atlas_peer_table_is_locked_by_me()" before it.  *)
(* th_pc[t].at is the instruction thread t is at, th_pc[t].rpc tells that  *)
(* its RPC is in progress.                                                 *)
(***************************************************************************)
\* A fetcher that keeps the lock of line 3332 while it asks the peer, with
\* no assert before the call (mutant of ZonefileCrawlerProgram)
ZonefileCrawlerProgramUnderLock == <<
    [op |-> "lock", line |-> 3332, next |-> {2}],
    [op |-> "get_zonefiles", line |-> 2374, assert_line |-> 0, next |-> {3, -1}],
    [op |-> "unlock", line |-> 3441, next |-> {0}] >>

\* AtlasZonefileCrawler.step
ZonefileCrawlerProgram == <<
    [op |-> "lock", line |-> 3332, next |-> {2}],
    [op |-> "unlock", line |-> 3338, next |-> {3, 0}],
    [op |-> "lock", line |-> 2443, next |-> {4}],              \* atlas_rank_peers_by_health
    [op |-> "unlock", line |-> 2458, next |-> {5, 3, 0}],
    [op |-> "get_zonefiles", line |-> 2374, assert_line |-> 2371, next |-> {6, -1}],
    [op |-> "lock", line |-> 1799, next |-> {7}],              \* atlas_peer_update_health
    [op |-> "unlock", line |-> 1823, next |-> {8, -1}],
    [op |-> "lock", line |-> 3432, next |-> {9}],
    [op |-> "unlock", line |-> 3441, next |-> {5, 3, 0}] >>

\* AtlasZonefilePusher.step
ZonefilePusherProgram == <<
    [op |-> "lock", line |-> 3528, next |-> {2}],
    [op |-> "unlock", line |-> 3534, next |-> {3, 0}],
    [op |-> "put_zonefiles", line |-> 2698, assert_line |-> 2693, next |-> {4}],
    [op |-> "lock", line |-> 2725, next |-> {5}],
    [op |-> "unlock", line |-> 2730, next |-> {3, 0}] >>

\* AtlasHealthChecker.step if atlas_peer_refresh_zonefile_inventory called
\* atlas_peer_sync_zonefile_inventory without releasing the lock first
HealthCheckerProgramRelock == <<
    [op |-> "lock", line |-> 3215, next |-> {2}],
    [op |-> "unlock", line |-> 3230, next |-> {3, 0}],
    [op |-> "lock", line |-> 2033, next |-> {4}],
    [op |-> "lock", line |-> 1959, next |-> {5}],
    [op |-> "unlock", line |-> 1978, next |-> {3, 0}] >>

\* AtlasHealthChecker.step: atlas_peer_refresh_zonefile_inventory and
\* atlas_peer_sync_zonefile_inventory for each stale peer
HealthCheckerProgram == <<
    [op |-> "lock", line |-> 3215, next |-> {2}],
    [op |-> "unlock", line |-> 3230, next |-> {3, 0}],
    [op |-> "lock", line |-> 2033, next |-> {4}],
    [op |-> "unlock", line |-> 2047, next |-> {5, 3, 0}],
    [op |-> "lock", line |-> 1959, next |-> {6}],
    [op |-> "unlock", line |-> 1978, next |-> {7, 10, 3, 0}],
    [op |-> "get_zonefile_inventory", line |-> 1857, assert_line |-> 1851, next |-> {8, -1}],
    [op |-> "lock", line |-> 1799, next |-> {9}],              \* atlas_peer_update_health
    [op |-> "unlock", line |-> 1823, next |-> {7, 10, -1}],
    [op |-> "lock", line |-> 1984, next |-> {11}],
    [op |-> "unlock", line |-> 1998, next |-> {12, 3, 0}],
    [op |-> "lock", line |-> 2055, next |-> {13}],
    [op |-> "unlock", line |-> 2067, next |-> {3, 0}] >>

\* AtlasPeerCrawler.step: get_current_peers; add_new_peers (getinfo, then
\* atlasdb_add_peer, whose probe of an occupied slot raises before any
\* ping); the random walk (get_neighbors); update_existing_peers
\* (atlas_revalidate_peers, then remove_unhealthy_peers under the lock)
PeerCrawlerProgram == <<
    [op |-> "lock", line |-> 2991, next |-> {2}],
    [op |-> "unlock", line |-> 2996, next |-> {3, 10, 13, 15, 20}],
    [op |-> "getinfo", line |-> 1472, assert_line |-> 1466, next |-> {4}],
    [op |-> "lock", line |-> 1500, next |-> {5}],
    [op |-> "unlock", line |-> 1506, next |-> {3, 6, 10, 13, 15, 20, -1}],
    [op |-> "lock", line |-> 757, next |-> {7}],               \* atlasdb_add_peer
    [op |-> "unlock", line |-> 787, next |-> {3, 8, 10, 13, 15, 20, -1}],
    [op |-> "lock", line |-> 815, next |-> {9}],
    [op |-> "unlock", line |-> 834, next |-> {3, 10, 13, 15, 20}],
    [op |-> "get_atlas_peers", line |-> 2307, assert_line |-> 2304, next |-> {11, -1}],
    [op |-> "lock", line |-> 1799, next |-> {12}],             \* atlas_peer_update_health
    [op |-> "unlock", line |-> 1823, next |-> {10, 13, 15, 20}],
    [op |-> "lock", line |-> 1543, next |-> {14}],             \* atlas_get_live_neighbors
    [op |-> "unlock", line |-> 1561, next |-> {10, 13, 15, 20}],
    [op |-> "ping", line |-> 1427, assert_line |-> 1418, next |-> {16}],
    [op |-> "lock", line |-> 1441, next |-> {17}],
    [op |-> "unlock", line |-> 1447, next |-> {15, 18, 20}],
    [op |-> "lock", line |-> 1768, next |-> {19}],             \* is_whitelisted, ..., remove_peer
    [op |-> "unlock", line |-> 1780, next |-> {18, 15, 20}],
    [op |-> "lock", line |-> 3061, next |-> {21}],
    [op |-> "unlock", line |-> 3066, next |-> {0}] >>

\* The operations of the RPC server and the workers' steps
Program(t) ==
    CASE t = "AtlasPeerCrawler" -> PeerCrawlerProgram
      [] t = "AtlasHealthChecker" -> HealthCheckerProgram
      [] t = "AtlasZonefileCrawler" -> ZonefileCrawlerProgram
      [] t = "AtlasZonefilePusher" -> ZonefilePusherProgram
      [] t = "atlas_peer_enqueue" ->
            << [op |-> "lock", line |-> 2532, next |-> {2}],
               [op |-> "unlock", line |-> 2537, next |-> {0}] >>
      [] t = "atlas_zonefile_push_enqueue" ->
            << [op |-> "lock", line |-> 2634, next |-> {2}],
               [op |-> "unlock", line |-> 2652, next |-> {0}] >>

\* The op of the instruction the thread is to execute, if any
ThreadOp(t) ==
    IF th_pc[t].at > 0 /\ ~th_pc[t].rpc THEN Program(t)[th_pc[t].at].op ELSE None

\* run() calls step(), or the RPC server calls the operation
ThreadBegin(t) ==
    /\ th_pc[t].at = 0
    /\ th_pc' = [th_pc EXCEPT ![t].at = 1]
    /\ UNCHANGED <<PEER_TABLE_LOCK_HOLDER, LOCKS, th_step, notLock>>

\* atlas_peer_table_lock: the assert "DEADLOCK", then PEER_TABLE_LOCK.acquire()
atlas_peer_table_lock(t) ==
    /\ ThreadOp(t) = "lock"
    /\ IF PEER_TABLE_LOCK_HOLDER = t
       THEN /\ th_pc' = [th_pc EXCEPT ![t].at = -1]
            /\ UNCHANGED <<PEER_TABLE_LOCK_HOLDER, LOCKS>>
       ELSE /\ LOCKS["PEER_TABLE_LOCK"] = None
            /\ LOCKS' = [LOCKS EXCEPT !["PEER_TABLE_LOCK"] = t]
            /\ PEER_TABLE_LOCK_HOLDER' = t
            /\ \E n \in Program(t)[th_pc[t].at].next : th_pc' = [th_pc EXCEPT ![t].at = n]
    /\ UNCHANGED <<th_step, notLock>>

\* atlas_peer_table_unlock
atlas_peer_table_unlock(t) ==
    /\ ThreadOp(t) = "unlock"
    /\ PEER_TABLE_LOCK_HOLDER' = None
    /\ LOCKS' = [LOCKS EXCEPT !["PEER_TABLE_LOCK"] = None]
    /\ \E n \in Program(t)[th_pc[t].at].next : th_pc' = [th_pc EXCEPT ![t].at = n]
    /\ UNCHANGED <<th_step, notLock>>

\* An RPC client operation up to its call of the remote peer:
\* "assert not atlas_peer_table_is_locked_by_me()", then rpc.<op>(...)
ThreadRpcCall(t) ==
    /\ ThreadOp(t) \notin {None, "lock", "unlock"}
    /\ th_pc' = IF /\ Program(t)[th_pc[t].at].assert_line # 0
                   /\ PEER_TABLE_LOCK_HOLDER = t
                THEN [th_pc EXCEPT ![t].at = -1]
                ELSE [th_pc EXCEPT ![t].rpc = TRUE]
    /\ UNCHANGED <<PEER_TABLE_LOCK_HOLDER, LOCKS, th_step, notLock>>

\* The remote peer answers, or the call times out
ThreadRpcReturn(t) ==
    /\ th_pc[t].rpc
    /\ \E n \in Program(t)[th_pc[t].at].next :
          th_pc' = [th_pc EXCEPT ![t].at = n, ![t].rpc = FALSE]
    /\ UNCHANGED <<PEER_TABLE_LOCK_HOLDER, LOCKS, th_step, notLock>>

LockInit ==
    /\ CatEmpty
    /\ PeerInit(Hostports, [q \in Hostports |-> 0])
    /\ rpc_last = NoCall
    /\ NodeStopped

LockNext ==
    \E t \in Threads :
        \/ ThreadBegin(t)
        \/ atlas_peer_table_lock(t)
        \/ atlas_peer_table_unlock(t)
        \/ ThreadRpcCall(t)
        \/ ThreadRpcReturn(t)

SpecLock == LockInit /\ [][LockNext]_vars

\* C1: no thread holds the peer table lock while its RPC is in progress.
C1_NoRpcUnderLock ==
    \A t \in Threads : th_pc[t].rpc => PEER_TABLE_LOCK_HOLDER # t

\* C1 witness: the zonefile fetcher's get_zonefiles is in progress, after it
\* released the lock, while the peer crawler holds the lock.
C1_Witness ==
    /\ th_pc["AtlasZonefileCrawler"].rpc
    /\ Program("AtlasZonefileCrawler")[th_pc["AtlasZonefileCrawler"].at].op = "get_zonefiles"
    /\ PEER_TABLE_LOCK_HOLDER = "AtlasPeerCrawler"

(***************************************************************************)
(* The run loops of the four workers, atlas_node_start and                 *)
(* atlas_node_stop.  run_pc[w].at is "new" before start(), "started" when  *)
(* the thread exists and run() has not yet executed, "loop" at the test of *)
(* "while self.running", "step" inside step(), "exited" after the loop,    *)
(* "dead" when an exception left run().                                    *)
(***************************************************************************)
\* atlas_node_start: component.start()
RunStart(w) ==
    /\ run_pc[w].at = "new"
    /\ run_pc' = [run_pc EXCEPT ![w].at = "started"]
    /\ UNCHANGED <<running, notRun>>

\* run(): self.running = True
RunEnter(w) ==
    /\ run_pc[w].at = "started"
    /\ running' = [running EXCEPT ![w] = TRUE]
    /\ run_pc' = [run_pc EXCEPT ![w].at = "loop"]
    /\ UNCHANGED notRun

\* run(): while self.running
RunTest(w) ==
    /\ run_pc[w].at = "loop"
    /\ run_pc' = [run_pc EXCEPT ![w].at = IF running[w] THEN "step" ELSE "exited"]
    /\ UNCHANGED <<running, notRun>>

\* run(): self.step(...) returns, or raises; no run() has a try statement,
\* so the exception leaves run() and the thread ends
RunStep(w, raised) ==
    /\ run_pc[w].at = "step"
    /\ run_pc' = [run_pc EXCEPT ![w].at = IF raised THEN "dead" ELSE "loop"]
    /\ UNCHANGED <<running, notRun>>

\* atlas_node_stop: component.ask_join(), once atlas_node_start has returned
\* and the join() of every component asked before has returned
ask_join(w) ==
    /\ \A v \in Workers : run_pc[v].at # "new"
    /\ \A v \in Workers : run_pc[v].asked => run_pc[v].at \in {"exited", "dead"}
    /\ ~run_pc[w].asked
    /\ running' = [running EXCEPT ![w] = FALSE]
    /\ run_pc' = [run_pc EXCEPT ![w].asked = TRUE]
    /\ UNCHANGED notRun

RunInit ==
    /\ CatEmpty
    /\ PeerInit(Hostports, [q \in Hostports |-> 0])
    /\ rpc_last = NoCall
    /\ NodeStopped

\* The steps of the worker's own thread
RunWorker(w) ==
    \/ RunEnter(w)
    \/ RunTest(w)
    \/ \E raised \in BOOLEAN : RunStep(w, raised)

RunNext ==
    \E w \in Workers :
        \/ RunStart(w)
        \/ RunEnter(w)
        \/ RunTest(w)
        \/ \E raised \in BOOLEAN : RunStep(w, raised)
        \/ ask_join(w)

SpecRun == RunInit /\ [][RunNext]_vars

\* Every started thread is scheduled again and again, and every step ends
FairRun == SpecRun /\ \A w \in Workers : WF_vars(RunWorker(w))

\* C8 (as stated): no worker is terminated by an exception raised in its
\* step: the run loop catches it and goes on.
C8_WorkerSurvivesException ==
    \A w \in Workers : run_pc[w].at # "dead"

\* C9 (as stated): a worker that atlas_node_stop asked to join eventually
\* leaves its run loop.
C9_AskedWorkerLeavesLoop ==
    \A w \in Workers : run_pc[w].asked ~> (run_pc[w].at \in {"exited", "dead"})

(***************************************************************************)
(* The peer crawler's removal of unhealthy peers.                          *)
(***************************************************************************)
MaxPings == 4            \* pings recorded in one peer's history
min_request_count == 1   \* scaled from the default of remove_unhealthy_peers
num_to_remove == 10

\* atlas_peer_ping: record in the peer's history whether it answered
atlas_peer_ping(peer_hostport, alive) ==
    /\ peer_hostport \in DOMAIN PEER_TABLE
    /\ Len(PEER_TABLE[peer_hostport].time) < MaxPings
    /\ PEER_TABLE' = atlas_peer_update_health(PEER_TABLE, peer_hostport, alive, now)
    /\ rpc_last' = [op |-> "ping", peer_hostport |-> peer_hostport, ret |-> alive]
    /\ UNCHANGED <<peers, now, notPeer>>

\* atlas_peer_get_request_count: the history entries whose flag is true
atlas_peer_get_request_count(peer_hostport, peer_table) ==
    IF peer_hostport \notin DOMAIN peer_table THEN 0
    ELSE Cardinality({ k \in 1..Len(peer_table[peer_hostport].time) :
                         peer_table[peer_hostport].time[k][2] })

\* The peers remove_unhealthy_peers(count) removes: it walks the ranking
\* (best health first, peers whose request count is 0 left out), take those
\* with reqcount >= min_request_count and health < MIN_PEER_HEALTH (1/2) until
\* count are taken, then atlasdb_remove_peer each
UnhealthyPeers(count, peer_table) ==
    LET ranked == atlas_rank_peers_by_health(
                      { q \in DOMAIN peer_table : atlas_peer_get_request_count(q, peer_table) # 0 },
                      peer_table)
        unhealthy == SelectSeq(ranked,
                        LAMBDA q : /\ atlas_peer_get_request_count(q, peer_table) >= min_request_count
                                   /\ 2 * atlas_peer_get_request_count(q, peer_table)
                                        < Len(peer_table[q].time))
        taken == SubSeq(unhealthy, 1, IF Len(unhealthy) < count THEN Len(unhealthy) ELSE count)
    IN { taken[k] : k \in 1..Len(taken) }

\* remove_unhealthy_peers(count), called on its own
remove_unhealthy_peers(count) ==
    LET removed == UnhealthyPeers(count, PEER_TABLE)
    IN /\ peers' = { r \in peers : r.peer_hostport \notin removed }
       /\ PEER_TABLE' = [q \in { o \in DOMAIN PEER_TABLE :
                                   o \in removed => PEER_TABLE[o].whitelisted
                                                    \/ PEER_TABLE[o].blacklisted } |->
                            PEER_TABLE[q]]
       /\ rpc_last' = [op |-> "remove_unhealthy_peers", peer_table |-> PEER_TABLE,
                       count |-> count, removed |-> removed]
       /\ UNCHANGED <<now, notPeer>>

UnhealthyNext ==
    \/ \E q \in Hostports, alive \in BOOLEAN : atlas_peer_ping(q, alive)
    \/ \E q \in Hostports, peer_slot \in Slots :
           atlasdb_add_peer(q, peer_slot, [o \in Hostports |-> FALSE], FALSE)
    \/ \E count \in {1, num_to_remove} : remove_unhealthy_peers(count)

SpecUnhealthy == AddPeerInit /\ [][UnhealthyNext]_vars

\* C11 (as stated): a peer with at least min_request_count recorded requests,
\* answered or not, and health below 1/2 is removed from the peer table and
\* the directory by the step, when no more than the step's count are eligible.
C11_EligiblePeersRemoved ==
    rpc_last.op = "remove_unhealthy_peers"
    => LET before == rpc_last.peer_table
           eligible == { q \in DOMAIN before :
                           /\ Len(before[q].time) >= min_request_count
                           /\ 2 * atlas_peer_get_request_count(q, before) < Len(before[q].time) }
       IN Cardinality(eligible) <= rpc_last.count
          => \A q \in eligible : /\ q \notin DOMAIN PEER_TABLE
                                 /\ \A r \in peers : r.peer_hostport # q

\* C32 (as stated): when more peers are eligible for removal than the step's
\* count, no removed peer has strictly higher health than an eligible peer
\* that was kept.  Eligible is taken as the program takes it (at least
\* min_request_count answered requests, health below 1/2).
C32_WorstPeersRemoved ==
    rpc_last.op = "remove_unhealthy_peers"
    => LET before == rpc_last.peer_table
           answered(q) == atlas_peer_get_request_count(q, before)
           eligible == { q \in DOMAIN before :
                           /\ answered(q) >= min_request_count
                           /\ 2 * answered(q) < Len(before[q].time) }
       IN Cardinality(eligible) > rpc_last.count
          => \A q \in rpc_last.removed, k \in eligible \ rpc_last.removed :
                ~ (answered(q) * Len(before[k].time) > answered(k) * Len(before[q].time))

(***************************************************************************)
(* The health checker's refresh of a peer's mirrored inventory.            *)
(***************************************************************************)
interval == 524288

\* atlas_peer_refresh_zonefile_inventory(peer_hostport, byte_offset) with a
\* local inventory of maxlen bytes, and atlas_peer_sync_zonefile_inventory
\* and atlas_peer_download_zonefile_inventory that it calls; reply is what
\* the peer answers to get_zonefile_inventory if it is asked
atlas_peer_refresh_zonefile_inventory(peer_hostport, byte_offset, maxlen, reply) ==
    LET known == peer_hostport \in DOMAIN PEER_TABLE
        cur_inv == PEER_TABLE[peer_hostport].zonefile_inv
        \* cur_inv[:byte_offset]
        reset_inv == SubSeq(cur_inv, 1, IF byte_offset < Len(cur_inv) THEN byte_offset
                                        ELSE Len(cur_inv))
        bit_offset == IF Len(reset_inv) = 0 THEN 0 ELSE (Len(reset_inv) - 1) * 8
        \* xrange(bit_offset, maxlen, interval) has one offset, or none
        called == known /\ bit_offset < maxlen /\ maxlen <= bit_offset + interval
        out == atlas_peer_get_zonefile_inventory_range(reply, interval)
        raised == called /\ out.kind = "raise"
        \* download starts from peer_inv = "" and adds the window it got
        peer_inv == IF called /\ out.kind = "value" THEN out.value.inv ELSE <<>>
        after_reset == [PEER_TABLE EXCEPT ![peer_hostport].zonefile_inv = reset_inv]
        after_call == IF called /\ out.health # "none"
                      THEN atlas_peer_update_health(after_reset, peer_hostport,
                                                    out.health = "true", now)
                      ELSE after_reset
        \* sync sets the inventory and returns it; it is not None, so refresh
        \* stamps the refresh time
        synced == [after_call[peer_hostport] EXCEPT !.zonefile_inv = peer_inv]
        stamped == [f \in DOMAIN synced \cup {"zonefile_inventory_last_refresh"} |->
                       IF f = "zonefile_inventory_last_refresh" THEN now ELSE synced[f]]
    IN /\ known => Len(PEER_TABLE[peer_hostport].time) < MaxHistory
       /\ PEER_TABLE' = IF ~known THEN PEER_TABLE
                        ELSE IF raised THEN after_call
                        ELSE PeerTablePut(after_call, peer_hostport, stamped)
       /\ rpc_last' = [op |-> "refresh_zonefile_inventory", peer_hostport |-> peer_hostport,
                       byte_offset |-> byte_offset, known |-> known,
                       before |-> IF known THEN PEER_TABLE[peer_hostport] ELSE <<>>,
                       failed |-> called /\ out.kind # "value",
                       ret |-> IF ~known THEN "False" ELSE IF raised THEN "raise" ELSE "True"]
       /\ UNCHANGED <<peers, now, notPeer>>

WindowBits == 16         \* bits of one window of the download (interval: 524288 in the program)

\* The loop of atlas_peer_download_zonefile_inventory over the offsets
\* xrange(bit_offset, maxlen, interval): replies are the peer's answers to
\* the successive get_zonefile_inventory requests.  [peer_inv, requests,
\* peer_table, raised] when the loop ends; requests lists the offsets asked.
RECURSIVE DownloadLoop(_, _, _, _, _)
DownloadLoop(peer_hostport, offset, maxlen, replies, acc) ==
    IF offset >= maxlen \/ replies = <<>> THEN acc
    ELSE LET out == atlas_peer_get_zonefile_inventory_range(Head(replies), WindowBits)
             peer_table == IF out.health = "none" THEN acc.peer_table
                           ELSE atlas_peer_update_health(acc.peer_table, peer_hostport,
                                                         out.health = "true", now)
             asked == [acc EXCEPT !.requests = Append(@, offset), !.peer_table = peer_table]
         IN IF out.kind = "raise" THEN [asked EXCEPT !.raised = TRUE]
            ELSE IF out.kind = "None" THEN asked
            ELSE LET next_inv == out.value.inv
                     added == [asked EXCEPT !.peer_inv = @ \o next_inv]
                 IN \* if len(next_inv) < interval: break
                    IF Len(next_inv) < WindowBits THEN added
                    ELSE DownloadLoop(peer_hostport, offset + WindowBits, maxlen,
                                      Tail(replies), added)

\* atlas_peer_download_zonefile_inventory(my_hostport, peer_hostport, maxlen,
\* bit_offset), called on its own
atlas_peer_download_zonefile_inventory(peer_hostport, maxlen, bit_offset, replies) ==
    LET start == [peer_inv |-> <<>>, requests |-> <<>>, peer_table |-> PEER_TABLE,
                  raised |-> FALSE]
        res == IF bit_offset > maxlen THEN start
               ELSE DownloadLoop(peer_hostport, bit_offset, maxlen, replies, start)
    IN /\ peer_hostport \in DOMAIN PEER_TABLE
       /\ Len(PEER_TABLE[peer_hostport].time) + 2 <= MaxHistory
       /\ PEER_TABLE' = res.peer_table
       /\ rpc_last' = [op |-> "download_zonefile_inventory", peer_hostport |-> peer_hostport,
                       maxlen |-> maxlen, bit_offset |-> bit_offset,
                       first |-> atlas_peer_get_zonefile_inventory_range(replies[1], WindowBits),
                       second |-> atlas_peer_get_zonefile_inventory_range(replies[2], WindowBits),
                       requests |-> res.requests,
                       raised |-> res.raised, ret |-> res.peer_inv]
       /\ UNCHANGED <<peers, now, notPeer>>

RefreshNext ==
    \/ \E q \in Hostports, byte_offset \in 0..1, maxlen \in 0..1 :
       \E reply \in { r \in InventoryReplies :
                         (r.has_payload /\ r.type_ok)
                         => r.payload.b64_ok /\ Len(r.payload.inv) = 1 } :
           atlas_peer_refresh_zonefile_inventory(q, byte_offset, maxlen, reply)
    \* a refresh of the tail: the peer does not answer, or answers well
    \/ \E q \in Hostports, maxlen \in 0..1 :
       \E reply \in { r \in InventoryReplies :
                         \/ ~r.conn
                         \/ /\ ~r.error /\ r.status /\ r.type_ok
                            /\ r.payload.b64_ok /\ Len(r.payload.inv) \in 1..2 } :
           atlas_peer_refresh_zonefile_inventory(q, 2, maxlen, reply)
    \/ \E q \in Hostports, maxlen \in {WindowBits, 2 * WindowBits} :
       \E first \in { r \in InventoryReplies :
                         (r.has_payload /\ r.type_ok)
                         => r.payload.b64_ok /\ Len(r.payload.inv) = 2 },
          second \in { r \in InventoryReplies :
                         \/ ~r.conn
                         \/ /\ ~r.error /\ r.status /\ r.type_ok
                            /\ r.payload.b64_ok /\ r.payload.inv = <<0, 0>> } :
           atlas_peer_download_zonefile_inventory(q, maxlen, 0, <<first, second>>)
    \/ Tick

SpecRefresh == RpcInit /\ [][RefreshNext]_vars

\* C12 (as stated): when a get_inventory call of a refresh of P failed, the
\* refresh returned False, and P's remote_inv and last-refresh time are what
\* they were before the refresh.
C12_FailedRefreshChangesNothing ==
    (rpc_last.op = "refresh_zonefile_inventory" /\ rpc_last.failed)
    => LET P == PEER_TABLE[rpc_last.peer_hostport]
           before == rpc_last.before
           stamp(e) == IF "zonefile_inventory_last_refresh" \in DOMAIN e
                       THEN e.zonefile_inventory_last_refresh ELSE -1
       IN /\ rpc_last.ret = "False"
          /\ P.zonefile_inv = before.zonefile_inv
          /\ stamp(P) = stamp(before)

\* C28 (as stated): when the expected length spans more than one window and
\* the peer answered the first window with a full window of data, the second
\* window was requested and its data concatenated to the first.
C28_SecondWindowRequested ==
    (/\ rpc_last.op = "download_zonefile_inventory"
     /\ rpc_last.bit_offset = 0
     /\ rpc_last.maxlen > WindowBits
     /\ ~rpc_last.raised
     /\ rpc_last.first.kind = "value"
     /\ Len(rpc_last.first.value.inv) * 8 = WindowBits)
    => /\ rpc_last.requests = <<0, WindowBits>>
       /\ rpc_last.second.kind = "value"
            => rpc_last.ret = rpc_last.first.value.inv \o rpc_last.second.value.inv

\* C33 (as stated): when a refresh with byte_offset k > 0 of a peer whose
\* mirrored inventory had at least k bytes returned True, the bytes of the
\* new inventory before the region downloaded again (which starts at the last
\* byte kept, byte k - 1) are the bytes the inventory had.
C33_TailRefreshKeepsPrefix ==
    (/\ rpc_last.op = "refresh_zonefile_inventory"
     /\ rpc_last.ret = "True"
     /\ rpc_last.byte_offset > 0
     /\ Len(rpc_last.before.zonefile_inv) >= rpc_last.byte_offset)
    => LET new_inv == PEER_TABLE[rpc_last.peer_hostport].zonefile_inv
           kept == rpc_last.byte_offset - 1
       IN /\ Len(new_inv) >= kept
          /\ SubSeq(new_inv, 1, kept) = SubSeq(rpc_last.before.zonefile_inv, 1, kept)

(***************************************************************************)
(* The peer table from atlasdb_init on, as the crawler adds the hostports  *)
(* it learnt from the peer queue and from neighbor lists.                  *)
(***************************************************************************)
\* One round of the loop of add_new_peers, for a hostport of new_peers: res
\* tells that atlas_peer_getinfo returned a reply of a recent enough version
add_new_peers(peer, res, peer_slot, alive) ==
    IF peer = MyHostport \/ peer \in DOMAIN PEER_TABLE \/ ~res
    THEN /\ rpc_last' = [op |-> "add_new_peers", peer_hostport |-> peer]
         /\ UNCHANGED <<PEER_TABLE, peers, now, notPeer>>
    ELSE atlasdb_add_peer(peer, peer_slot, alive, TRUE)

\* atlasdb_init(peer_seeds) on a new database: atlasdb_add_peer for each seed,
\* then the seeds are whitelisted
OwnInit ==
    /\ CatEmpty
    /\ \E seeds \in SUBSET (Hostports \cup {MyHostport}) :
       \E slot_of \in [seeds -> Slots] : PeerInit(seeds, slot_of)
    /\ rpc_last = NoCall
    /\ NodeStopped

OwnNext ==
    \E peer \in Hostports \cup {MyHostport}, res \in BOOLEAN, peer_slot \in Slots,
       alive \in [Hostports \cup {MyHostport} -> BOOLEAN] :
        add_new_peers(peer, res, peer_slot, alive)

SpecOwn == OwnInit /\ [][OwnNext]_vars

\* C13 (as stated): the peer table has no entry for the node's own hostport.
C13_NoSelfInPeerTable ==
    MyHostport \notin DOMAIN PEER_TABLE

\* C14: no thread calls atlas_peer_table_lock while it holds the peer table
\* lock, so the DEADLOCK assertion does not fire.
C14_NoRecursiveLock ==
    \A t \in Threads : ThreadOp(t) = "lock" => PEER_TABLE_LOCK_HOLDER # t

\* C14 witness: the health checker holds the lock it took for the second
\* time in its step (in atlas_peer_refresh_zonefile_inventory), while the
\* peer crawler is calling atlas_peer_table_lock.
C14_Witness ==
    /\ PEER_TABLE_LOCK_HOLDER = "AtlasHealthChecker"
    /\ th_pc["AtlasHealthChecker"].at = 4
    /\ ThreadOp("AtlasPeerCrawler") = "lock"

\* C15 (as stated): the push queue never holds more than
\* MAX_QUEUED_ZONEFILES entries, and an atlas_zonefile_push_enqueue that
\* finds it holding that many returns False and leaves it as it is.  (The
\* test of the length and the append run under ZONEFILE_QUEUE_LOCK, as does
\* the pop of atlas_zonefile_push_dequeue, so each is one step.)
C15_QueueBounded ==
    [][/\ Len(zonefile_queue') <= MAX_QUEUED_ZONEFILES
       /\ (rpc_last'.op = "push_enqueue" /\ Len(zonefile_queue) = MAX_QUEUED_ZONEFILES)
          => (rpc_last'.ret = "False" /\ zonefile_queue' = zonefile_queue)]_vars

\* C16 (as stated): atlas_zonefile_push_enqueue for a known hash, when the
\* mirrored inventory of every peer of the peer table has all bits of the
\* hash set, leaves the push queue as it is and does not return True.
C16_EnqueueNoopWhenAllHave ==
    [][LET bits == atlasdb_get_zonefile_bits(zonefiles, rpc_last'.zonefile_hash)
       IN (/\ rpc_last'.op = "push_enqueue"
           /\ Len(bits) # 0
           /\ \A q \in DOMAIN PEER_TABLE :
                 atlas_inventory_test_zonefile_bits(PEER_TABLE[q].zonefile_inv, bits))
          => (zonefile_queue' = zonefile_queue /\ rpc_last'.ret # "True")]_vars

(***************************************************************************)
(* put_zonefiles.  A reply's payload is its 'saved' field.                 *)
(***************************************************************************)
\* atlas_zonefile_push: status is set to False before the call and nothing
\* assigns it afterwards (the success branch compares the list
\* push_info['saved'] with 1 and would assign another variable, saved);
\* every exception of the try block is caught
atlas_zonefile_push(reply) ==
    Outcome("value", "False", "false")

PutZonefilesNext ==
    \/ \E q \in Hostports :
       \E reply \in RepliesWith({<<>>, <<0>>, <<1>>, <<2>>, <<1, 1>>}) :
           RpcCall("put_zonefiles", q, reply, atlas_zonefile_push(reply))
    \/ Tick

SpecPutZonefiles == RpcInit /\ [][PutZonefilesNext]_vars

\* C17 (as stated): atlas_zonefile_push to a peer of the peer table returns
\* True and records responded = TRUE exactly when the reply has a true status
\* and saved[0] = 1 (saved being a list of one element); otherwise it returns
\* False and records responded = FALSE.
C17_PushSucceedsIffSaved ==
    (rpc_last.op = "put_zonefiles" /\ rpc_last.peer_hostport \in DOMAIN PEER_TABLE)
    => LET reply == rpc_last.reply
           history == PEER_TABLE[rpc_last.peer_hostport].time
           saved == /\ reply.conn /\ reply.dict /\ reply.has_status /\ reply.status
                    /\ reply.has_payload /\ reply.type_ok
                    /\ reply.payload = <<1>>
       IN /\ rpc_last.value = (IF saved THEN "True" ELSE "False")
          /\ history[Len(history)] = <<rpc_last.t, saved>>

\* C18 (as stated): an RPC client operation on a peer that is in the peer
\* table when the call completes appends exactly one (timestamp, responded)
\* pair to the peer's history (after the entries older than the lifetime
\* were dropped), whatever the outcome of the call.
C18_OneHistoryEntryPerCall ==
    [][(/\ now' = now
        /\ rpc_last'.op \in {"getinfo", "get_neighbors", "get_inventory", "get_zonefiles"}
        /\ rpc_last'.peer_hostport \in DOMAIN PEER_TABLE')
       => \E responded \in BOOLEAN :
             PEER_TABLE'[rpc_last'.peer_hostport].time =
                Append(FreshTimes(PEER_TABLE[rpc_last'.peer_hostport].time, now),
                       <<now, responded>>)]_vars

(***************************************************************************)
(* atlas_get_live_neighbors, on a peer table atlasdb_init built from seed  *)
(* peers and a blacklist.                                                  *)
\* C29 (as stated): a get_inventory reply, well-formed otherwise, whose
\* decoded inventory is longer than ceil(bit_count / 8) bytes is rejected:
\* the operation does not return it.
C29_LongInventoryRejected ==
    (/\ rpc_last.op = "get_inventory"
     /\ rpc_last.reply.dict /\ ~rpc_last.reply.error
     /\ rpc_last.reply.has_status /\ rpc_last.reply.status
     /\ rpc_last.reply.has_payload /\ rpc_last.reply.type_ok
     /\ rpc_last.reply.payload.b64_ok
     /\ Len(rpc_last.reply.payload.inv) > (InvBits + 7) \div 8)
    => rpc_last.kind # "value"

(***************************************************************************)
\* atlas_get_live_neighbors(remote_peer_hostport), min_health = MIN_PEER_HEALTH
\* (1/2) and min_request_count = 1; the result is shuffled, so a set here
atlas_get_live_neighbors(remote_peer_hostport) ==
    LET alive_peers ==
            { q \in DOMAIN PEER_TABLE :
                /\ q # remote_peer_hostport
                /\ atlas_peer_get_request_count(q, PEER_TABLE) >= 1
                \* atlas_peer_get_health: responses / requests >= 0.5
                /\ 2 * Cardinality({ k \in 1..Len(PEER_TABLE[q].time) : PEER_TABLE[q].time[k][2] })
                     >= Len(PEER_TABLE[q].time) }
    IN /\ rpc_last' = [op |-> "get_live_neighbors",
                       remote_peer_hostport |-> remote_peer_hostport, ret |-> alive_peers]
       /\ UNCHANGED <<peerVars, notPeer>>

\* atlasdb_init: the seeds are whitelisted, the peers of peer_blacklist
\* blacklisted, and all of them are in the peer table
LiveInit ==
    /\ CatEmpty
    /\ \E peer_seeds \in SUBSET Hostports, peer_blacklist \in SUBSET Hostports :
       \E slot_of \in [peer_seeds \cup peer_blacklist -> Slots] :
          /\ PEER_TABLE = [q \in peer_seeds \cup peer_blacklist |->
                              atlas_init_peer_info(q \in peer_blacklist, q \in peer_seeds)]
          /\ peers = {[peer_hostport |-> q, peer_slot |-> slot_of[q], discovery_time |-> 0] :
                         q \in peer_seeds \cup peer_blacklist}
    /\ now = 0
    /\ rpc_last = NoCall
    /\ NodeStopped

LiveNext ==
    \/ \E q \in Hostports, alive \in BOOLEAN : atlas_peer_ping(q, alive)
    \/ \E q \in Hostports \cup {None} : atlas_get_live_neighbors(q)

SpecLive == LiveInit /\ [][LiveNext]_vars

\* C27 (as stated): every hostport atlas_get_live_neighbors returns is a peer
\* of the peer table other than the excluded one that is not blacklisted,
\* has at least one recorded request and health at least MIN_PEER_HEALTH.
C27_LiveNeighborsNotBlacklisted ==
    rpc_last.op = "get_live_neighbors"
    => \A q \in rpc_last.ret :
          /\ q \in DOMAIN PEER_TABLE
          /\ q # rpc_last.remote_peer_hostport
          /\ ~PEER_TABLE[q].blacklisted
          /\ Len(PEER_TABLE[q].time) >= 1
          /\ 2 * Cardinality({ k \in 1..Len(PEER_TABLE[q].time) : PEER_TABLE[q].time[k][2] })
               >= Len(PEER_TABLE[q].time)

(***************************************************************************)
(* AtlasPeerCrawler.step, in its three parts: update_new_peers, the walk   *)
(* of the peer graph, update_existing_peers.  crawler.pc names the part    *)
(* that comes next ("dead": an exception left the step).  Remote peers     *)
(* answer get_atlas_peers with a well-formed list or not at all.           *)
(***************************************************************************)
\* atlas_max_new_peers (PEER_MAX_DB is NumSlots here)
atlas_max_new_peers(max_neighbors) ==
    IF max_neighbors * 10 < NumSlots THEN max_neighbors * 10 ELSE NumSlots

\* The loop of add_new_peers over the hostports not yet known, in order:
\* those that answer getinfo are given to atlasdb_add_peer, which raises
\* when the slot has a row.  [peer_table, rows, raised] at the end.
RECURSIVE AddLoop(_, _, _, _, _)
AddLoop(order, responsive, slot_of, peer_table, rows) ==
    IF order = <<>> THEN [peer_table |-> peer_table, rows |-> rows, raised |-> FALSE]
    ELSE LET peer == Head(order)
         IN IF peer \notin responsive
            THEN AddLoop(Tail(order), responsive, slot_of, peer_table, rows)
            ELSE IF SlotOccupants(rows, slot_of[peer]) # {}
            THEN [peer_table |-> peer_table, rows |-> rows, raised |-> TRUE]
            ELSE AddLoop(Tail(order), responsive, slot_of,
                         PeerTablePut(peer_table, peer, atlas_init_peer_info(FALSE, FALSE)),
                         rows \cup {[peer_hostport |-> peer, peer_slot |-> slot_of[peer],
                                     discovery_time |-> now]})

\* update_new_peers(10, current_peers, peer_queue): responsive are the
\* hostports that answer getinfo, slot_of the slots their nonces give, order
\* the order in which the shuffled list presents the unknown hostports (never
\* more than 10 here), kept what the truncation of the shuffled list retains
update_new_peers(peer_queue) ==
    LET current_peers == DOMAIN PEER_TABLE
        new_peers == (crawler.new_peers \cup peer_queue) \ {MyHostport}
        unknown == new_peers \ current_peers
        present == new_peers \cap current_peers
        max_new_peers == atlas_max_new_peers(NUM_NEIGHBORS)
    IN /\ crawler.pc = "update_new_peers"
       /\ \E responsive \in SUBSET unknown :
          \E slot_of \in [responsive -> Slots] :
          \E order \in { l \in ListsOver(unknown, Cardinality(unknown)) :
                            Len(l) = Cardinality(unknown) } :
            LET loop == AddLoop(order, responsive, slot_of, PEER_TABLE, peers)
                left == new_peers \ (responsive \cup present)
            IN \E kept \in { k \in SUBSET left :
                                Cardinality(k) = (IF Cardinality(left) > max_new_peers
                                                  THEN max_new_peers ELSE Cardinality(left)) } :
                /\ PEER_TABLE' = loop.peer_table
                /\ peers' = loop.rows
                /\ crawler' = IF loop.raised THEN [crawler EXCEPT !.pc = "dead"]
                              ELSE [crawler EXCEPT !.pc = "walk", !.new_peers = kept,
                                                   !.current_peers = current_peers]
       /\ rpc_last' = [op |-> "update_new_peers"]
       /\ UNCHANGED <<now, notCrawl>>

\* What a peer answers to get_atlas_peers: nothing (ok = FALSE), or a list
\* of at most NUM_NEIGHBORS hostports (kept as a set: no hostport twice)
NeighborAnswers ==
    {[ok |-> FALSE, peers |-> {}]}
    \cup {[ok |-> TRUE, peers |-> l] :
             l \in { x \in SUBSET (Hostports \cup {MyHostport}) : Cardinality(x) <= NUM_NEIGHBORS }}

\* AtlasPeerCrawler.get_neighbors: atlas_get_live_neighbors for the node
\* itself, atlas_peer_get_neighbors (which records the peer's health)
\* otherwise.  [ok, peers, peer_table]
get_neighbors(peer_hostport, answer, peer_table) ==
    IF peer_hostport = MyHostport
    THEN [ok |-> TRUE,
          peers |-> { q \in DOMAIN peer_table :
                        /\ atlas_peer_get_request_count(q, peer_table) >= 1
                        /\ 2 * atlas_peer_get_request_count(q, peer_table)
                             >= Len(peer_table[q].time) },
          peer_table |-> peer_table]
    ELSE [ok |-> answer.ok, peers |-> answer.peers,
          peer_table |-> atlas_peer_update_health(peer_table, peer_hostport, answer.ok, now)]

\* random_walk_graph: [ok, current_peer, current_peer_neighbors, peer_table];
\* move is the branch the random numbers p and q select, next_peer and
\* alt_peer the random choices among the neighbors
random_walk_graph(current_peer, current_peer_neighbors, prev_peer, peer_table, next_peer, alt_peer, move, answer1, answer2) ==
    LET error_ret(tbl) == [ok |-> FALSE, current_peer |-> None,
                           current_peer_neighbors |-> {}, peer_table |-> tbl]
        moved(peer, nb) == [ok |-> nb.ok /\ nb.peers # {}, current_peer |-> peer,
                            current_peer_neighbors |-> nb.peers, peer_table |-> nb.peer_table]
        current_peer_degree == Cardinality(current_peer_neighbors)
        next == get_neighbors(next_peer, answer1, peer_table)
        second == get_neighbors(IF move = "stay" THEN current_peer ELSE alt_peer,
                                answer2, next.peer_table)
    IN IF current_peer_degree = 0 THEN error_ret(peer_table)
       ELSE IF ~next.ok \/ next.peers = {} THEN error_ret(next.peer_table)
       ELSE IF move = "stay" THEN moved(current_peer, second)
       ELSE IF prev_peer = next_peer /\ current_peer_degree > 1
            THEN IF ~second.ok \/ second.peers = {} THEN error_ret(second.peer_table)
                 ELSE IF move = "alt" THEN moved(alt_peer, second)
                 ELSE [ok |-> TRUE, current_peer |-> next_peer,
                       current_peer_neighbors |-> next.peers,
                       peer_table |-> second.peer_table]
       ELSE moved(next_peer, next)

PEER_CLEAN_INTERVAL == 3600
PEER_MAX_AGE == 2678400

\* The walk of step(): begin it at a random current peer if there is none,
\* then random_walk_graph; the neighbors found join self.new_peers
CrawlWalk ==
    LET begin == crawler.current_peer = None /\ crawler.current_peers # {}
        failed == [ok |-> FALSE, peers |-> {}]
    IN
    /\ crawler.pc = "walk"
    /\ \E start_peer \in (IF begin THEN crawler.current_peers ELSE {None}),
          start_answer \in (IF begin THEN NeighborAnswers ELSE {failed}) :
        LET first == get_neighbors(start_peer, start_answer, PEER_TABLE)
            begun == begin /\ first.ok /\ first.peers # {}
            \* random_walk_reset() when the first crawl found nothing
            current_peer == IF begin THEN (IF begun THEN start_peer ELSE None)
                            ELSE crawler.current_peer
            current_peer_neighbors == IF begin THEN first.peers \ {MyHostport}
                                      ELSE crawler.current_peer_neighbors
            prev_peer == IF begin /\ ~begun THEN None ELSE crawler.prev_peer
            new_peers == crawler.new_peers \cup (IF begun THEN first.peers \ {MyHostport} ELSE {})
            peer_table == IF begin THEN first.peer_table ELSE PEER_TABLE
            walks == current_peer # None
            degree == Cardinality(current_peer_neighbors)
        IN \E next_peer \in (IF walks /\ degree > 0 THEN current_peer_neighbors ELSE {None}) :
           \E move \in (IF walks /\ degree > 0 THEN {"next", "alt", "stay"} ELSE {"next"}) :
           \E alt_peer \in (IF move # "stay" /\ prev_peer = next_peer /\ degree > 1
                            THEN current_peer_neighbors \ {next_peer} ELSE {None}) :
           \E answer1 \in (IF walks /\ degree > 0 THEN NeighborAnswers ELSE {failed}),
              answer2 \in (IF move = "stay" \/ alt_peer # None THEN NeighborAnswers
                           ELSE {failed}) :
               LET w == random_walk_graph(current_peer, current_peer_neighbors, prev_peer,
                                          peer_table, next_peer, alt_peer, move,
                                          answer1, answer2)
                   next_degree == Cardinality(get_neighbors(next_peer, answer1, peer_table).peers)
               IN \* p > min(1, current_peer_degree / next_peer_degree)
                  /\ move = "stay" => degree < next_degree
                  \* q <= min(1, (current_peer_degree / alt_peer_degree) ** 2)
                  /\ move = "alt" => prev_peer = next_peer /\ degree > 1
                  /\ PEER_TABLE' = (IF walks THEN w.peer_table ELSE peer_table)
                  /\ \A q \in DOMAIN PEER_TABLE' : Len(PEER_TABLE'[q].time) <= MaxHistory
                  /\ crawler' =
                        IF walks /\ w.ok
                        THEN [crawler EXCEPT !.pc = "update_existing_peers",
                                             !.prev_peer = current_peer,
                                             !.prev_peer_degree = degree,
                                             !.current_peer = w.current_peer,
                                             !.current_peer_neighbors = w.current_peer_neighbors,
                                             !.new_peers = new_peers \cup w.current_peer_neighbors]
                        ELSE [crawler EXCEPT !.pc = "update_existing_peers",
                                             !.prev_peer = IF walks THEN None ELSE prev_peer,
                                             !.current_peer = IF walks THEN None ELSE current_peer,
                                             !.current_peer_neighbors =
                                                 IF walks THEN {} ELSE current_peer_neighbors,
                                             !.new_peers = new_peers]
                  \* what the walk was given: the peer it stood at, the peers it
                  \* chose, and whether a neighbor list it asked of them was
                  \* None or empty
                  /\ rpc_last' =
                        [op |-> "walk", current_peer |-> current_peer, degree |-> degree,
                         prev_peer |-> prev_peer, next_peer |-> next_peer,
                         alt_peer |-> alt_peer,
                         next_failed |->
                             LET nb == get_neighbors(next_peer, answer1, peer_table)
                             IN walks /\ degree > 0 /\ (~nb.ok \/ nb.peers = {}),
                         alt_failed |->
                             LET nb == get_neighbors(alt_peer, answer2, peer_table)
                             IN alt_peer # None /\ (~nb.ok \/ nb.peers = {})]
    /\ UNCHANGED <<peers, now, notCrawl>>

\* update_existing_peers(10): atlas_revalidate_peers when last_clean_time is
\* more than PEER_CLEAN_INTERVAL ago (no row of the directory is older than
\* PEER_MAX_AGE here, so it pings nobody), then remove_unhealthy_peers
update_existing_peers(num) ==
    LET revalidate == crawler.last_clean_time + PEER_CLEAN_INTERVAL < now
        old_peer_infos == { r \in peers : r.discovery_time < now - PEER_MAX_AGE }
        removed == UnhealthyPeers(num, PEER_TABLE)
    IN /\ crawler.pc = "update_existing_peers"
       /\ old_peer_infos = {}
       /\ peers' = { r \in peers : r.peer_hostport \notin removed }
       /\ PEER_TABLE' = [q \in { o \in DOMAIN PEER_TABLE :
                                   o \in removed => PEER_TABLE[o].whitelisted
                                                    \/ PEER_TABLE[o].blacklisted } |->
                            PEER_TABLE[q]]
       /\ crawler' = [crawler EXCEPT !.pc = "update_new_peers",
                                     !.new_peers = @ \ removed,
                                     !.revalidated_at = IF revalidate THEN now ELSE @]
       /\ rpc_last' = [op |-> "update_existing_peers", revalidated |-> revalidate,
                       previous |-> crawler.revalidated_at, t |-> now]
       /\ UNCHANGED <<now, notCrawl>>

\* time_now() moves on by more than an hour, between steps of the crawler
CrawlTick ==
    /\ crawler.pc = "update_new_peers"
    /\ now < MaxNow
    /\ now' = MaxNow
    /\ UNCHANGED <<PEER_TABLE, peers, rpc_last, crawler, notCrawl>>

CrawlNext ==
    \/ \E peer_queue \in SUBSET (Hostports \cup {MyHostport}) : update_new_peers(peer_queue)
    \/ CrawlWalk
    \/ update_existing_peers(num_to_remove)
    \/ CrawlTick

SpecCrawl == RpcInit /\ [][CrawlNext]_vars

\* C35 (as stated): in a step whose walk has a current peer, if the neighbor
\* list asked of the chosen next peer, or of the alternate peer, was None or
\* empty the walk is reset; otherwise prev_peer is the peer the walk stood at,
\* prev_peer_degree the number of its neighbors, and the new current peer is
\* that peer, the next peer or the alternate peer, an alternate peer being
\* chosen only when the next peer is prev_peer and the degree exceeds 1, among
\* the neighbors other than the next peer.
C35_WalkTransition ==
    (rpc_last.op = "walk" /\ rpc_last.current_peer # None)
    => IF rpc_last.next_failed \/ (~rpc_last.next_failed /\ rpc_last.alt_failed)
       THEN /\ crawler.current_peer = None
            /\ crawler.prev_peer = None
            /\ crawler.current_peer_neighbors = {}
       ELSE /\ crawler.prev_peer = rpc_last.current_peer
            /\ crawler.prev_peer_degree = rpc_last.degree
            /\ crawler.current_peer
                  \in {rpc_last.current_peer, rpc_last.next_peer, rpc_last.alt_peer} \ {None}
            /\ rpc_last.alt_peer # None
                  => /\ rpc_last.next_peer = rpc_last.prev_peer
                     /\ rpc_last.degree > 1
                     /\ rpc_last.alt_peer # rpc_last.next_peer

\* C19 (as stated): between two consecutive executions of
\* atlas_revalidate_peers by the crawler at least PEER_CLEAN_INTERVAL seconds
\* elapse.
C19_RevalidateOncePerInterval ==
    (rpc_last.op = "update_existing_peers" /\ rpc_last.revalidated /\ rpc_last.previous # -1)
    => rpc_last.t - rpc_last.previous >= PEER_CLEAN_INTERVAL

\* C20 (as stated): at the end of a crawler step self.new_peers holds at most
\* atlas_max_new_peers(max_neighbors) hostports.
C20_NewPeersCapped ==
    crawler.pc = "update_new_peers"
    => Cardinality(crawler.new_peers) <= atlas_max_new_peers(NUM_NEIGHBORS)


(***************************************************************************)
(* The four locks of the module, call by call.  A section is a stretch of  *)
(* a worker's step or of an RPC-server operation in which locks are taken: *)
(* its steps are the calls on the locks in source order, "lines" are the   *)
(* lines of the first call of each place in the source where the stretch   *)
(* occurs, and "next" are the sections that may follow it (0: the step     *)
(* returns, -1: an exception leaves it).  th_pc[t].at is the section       *)
(* thread t is in and th_step[t] the call it is at.                        *)
(***************************************************************************)
\* atlas_peer_table_lock (lines 171-184)
TableLock == <<
    [op |-> "acquire", lock |-> "PEER_TABLE_LOCK", line |-> 182],
    [op |-> "set_holder", lock |-> "PEER_TABLE_LOCK", line |-> 183] >>

\* an atlas_peer_table_unlock that releases the lock before it clears the
\* holder (mutant of TableUnlock)
TableUnlockReleaseFirst == <<
    [op |-> "release", lock |-> "PEER_TABLE_LOCK", line |-> 209],
    [op |-> "clear_holder", lock |-> "PEER_TABLE_LOCK", line |-> 208] >>

\* atlas_peer_table_unlock (lines 203-210)
TableUnlock == <<
    [op |-> "clear_holder", lock |-> "PEER_TABLE_LOCK", line |-> 208],
    [op |-> "release", lock |-> "PEER_TABLE_LOCK", line |-> 209] >>

\* atlasdb_query_execute (lines 376-397): DB_LOCK around cur.execute
QueryExecute == <<
    [op |-> "acquire", lock |-> "DB_LOCK", line |-> 389],
    [op |-> "release", lock |-> "DB_LOCK", line |-> 391] >>

\* atlas_peer_queue_lock ... atlas_peer_queue_unlock (lines 213-228)
PeerQueueLocked == <<
    [op |-> "acquire", lock |-> "PEER_QUEUE_LOCK", line |-> 219],
    [op |-> "release", lock |-> "PEER_QUEUE_LOCK", line |-> 228] >>

\* atlas_zonefile_queue_lock ... atlas_zonefile_queue_unlock (lines 231-246)
ZonefileQueueLocked == <<
    [op |-> "acquire", lock |-> "ZONEFILE_QUEUE_LOCK", line |-> 237],
    [op |-> "release", lock |-> "ZONEFILE_QUEUE_LOCK", line |-> 246] >>

\* The peer table lock taken and released with nothing else locked between
TableLocked == TableLock \o TableUnlock

\* an atlas_peer_enqueue that returns for a peer already present without
\* releasing the table lock (mutant of PeerEnqueueSections)
PeerEnqueueSectionsNoUnlock == <<
    [lines |-> {2532}, steps |-> TableLock, next |-> {0}],
    [lines |-> {2546}, steps |-> PeerQueueLocked, next |-> {0}] >>

\* atlas_peer_enqueue (lines 2517-2561): the table lock is released before
\* the queue lock is taken; a peer already present returns at line 2542
PeerEnqueueSections == <<
    [lines |-> {2532}, steps |-> TableLocked, next |-> {2, 0}],
    [lines |-> {2546}, steps |-> PeerQueueLocked, next |-> {0}] >>

\* an atlas_zonefile_push_enqueue that takes the queue lock first and the
\* table lock under it (mutant of PushEnqueueSections)
PushEnqueueSectionsQueueFirst == <<
    [lines |-> {2628}, steps |-> QueryExecute, next |-> {2, 3, 0}],
    [lines |-> {2634}, steps |-> <<ZonefileQueueLocked[1]>> \o TableLocked \o <<ZonefileQueueLocked[2]>>,
     next |-> {0}],
    [lines |-> {2634}, steps |-> TableLocked, next |-> {0}] >>

\* atlas_zonefile_push_enqueue (lines 2615-2655): atlasdb_get_zonefile_bits,
\* return without bits (line 2629); the table lock, and under it the
\* zonefile queue lock (lines 2642-2649) when some peer is to be pushed to
PushEnqueueSections == <<
    [lines |-> {2628}, steps |-> QueryExecute, next |-> {2, 3, 0}],
    [lines |-> {2634}, steps |-> TableLock \o ZonefileQueueLocked \o TableUnlock, next |-> {0}],
    [lines |-> {2634}, steps |-> TableLocked, next |-> {0}] >>

\* AtlasZonefilePusher.step (lines 3492-3549): atlas_zonefile_push_dequeue,
\* atlasdb_get_zonefile_bits, atlas_zonefile_find_push_peers under the
\* table lock, then atlas_zonefile_push for each peer, which locks the
\* table for atlas_peer_update_health (line 2725)
ZonefilePusherSections == <<
    [lines |-> {2665}, steps |-> ZonefileQueueLocked, next |-> {2, 0}],
    [lines |-> {3520}, steps |-> QueryExecute, next |-> {3, 0}],
    [lines |-> {3528, 2725}, steps |-> TableLocked, next |-> {3, 0}] >>

\* AtlasHealthChecker.step (lines 3195-3240), called with local_inv: the
\* stale peers are found under the lock; atlas_peer_refresh_zonefile_inventory
\* and atlas_peer_sync_zonefile_inventory lock the table before and after
\* the download, and atlas_peer_update_health after each request
HealthCheckerSections == <<
    [lines |-> {3215, 2033, 1959, 1799, 1984, 2055}, steps |-> TableLocked, next |-> {1, 0, -1}] >>

\* AtlasZonefileCrawler.step (lines 3301-3451):
\* atlas_find_missing_zonefile_availability queries the catalog under the
\* table lock (lines 3332-3338); atlas_rank_peers_by_health,
\* atlas_peer_update_health and the loop that clears the bits lock the
\* table alone; store_zonefile updates the catalog with no table lock
ZonefileCrawlerSections == <<
    [lines |-> {3332}, steps |-> TableLock \o QueryExecute \o TableUnlock, next |-> {2, 0}],
    [lines |-> {2443, 1799, 3432}, steps |-> TableLocked, next |-> {2, 3, 0, -1}],
    [lines |-> {3296}, steps |-> QueryExecute, next |-> {2, 3}] >>

\* AtlasPeerCrawler.step (lines 3086-3156): get_current_peers;
\* update_new_peers (atlas_peer_dequeue_all, then for each new peer
\* atlas_peer_getinfo and atlasdb_add_peer, which releases the table lock
\* before it probes the slot and takes it again for the INSERT); the
\* random walk; update_existing_peers (atlas_revalidate_peers, whose
\* atlasdb_remove_peer deletes the row before it locks the table, then
\* remove_unhealthy_peers, whose atlasdb_remove_peer runs under the lock)
PeerCrawlerSections == <<
    [lines |-> {2991}, steps |-> TableLocked, next |-> {2}],
    [lines |-> {2572}, steps |-> PeerQueueLocked, next |-> {3, 4, 6, 8}],
    [lines |-> {1500, 757, 1799, 1543, 1441, 1768}, steps |-> TableLocked, next |-> {3, 4, 6, 7, 8, -1}],
    [lines |-> {757}, steps |-> TableLocked \o QueryExecute, next |-> {3, 5, 6, 8, -1}],
    [lines |-> {815}, steps |-> TableLock \o QueryExecute \o TableUnlock, next |-> {3, 4, 6, 8}],
    [lines |-> {1606, 1622}, steps |-> QueryExecute, next |-> {3, 6, 7, 8}],
    [lines |-> {861}, steps |-> QueryExecute \o TableLocked, next |-> {3, 6, 8}],
    [lines |-> {3061}, steps |-> TableLock \o QueryExecute \o TableUnlock, next |-> {0}],
    [lines |-> {3061}, steps |-> TableLocked, next |-> {0}] >>

\* The sections of the workers' steps and of the RPC server's operations
Sections(t) ==
    CASE t = "AtlasPeerCrawler" -> PeerCrawlerSections
      [] t = "AtlasHealthChecker" -> HealthCheckerSections
      [] t = "AtlasZonefileCrawler" -> ZonefileCrawlerSections
      [] t = "AtlasZonefilePusher" -> ZonefilePusherSections
      [] t = "atlas_peer_enqueue" -> PeerEnqueueSections
      [] t = "atlas_zonefile_push_enqueue" -> PushEnqueueSections

\* The call on a lock thread t is at, if any
LockCall(t) ==
    IF th_pc[t].at > 0
    THEN Sections(t)[th_pc[t].at].steps[th_step[t]]
    ELSE [op |-> None, lock |-> None, line |-> 0]

\* Thread t goes on after its call: to the next call of the section, or
\* to the first call of one of the sections that may follow
LockCallDone(t) ==
    IF th_step[t] < Len(Sections(t)[th_pc[t].at].steps)
    THEN /\ th_step' = [th_step EXCEPT ![t] = th_step[t] + 1]
         /\ UNCHANGED th_pc
    ELSE /\ th_step' = [th_step EXCEPT ![t] = 1]
         /\ \E n \in Sections(t)[th_pc[t].at].next : th_pc' = [th_pc EXCEPT ![t].at = n]

\* threading.Lock.acquire, which blocks until the lock is free; in
\* atlas_peer_table_lock the assert "DEADLOCK" (lines 178-179) comes first:
\* it reads PEER_TABLE_LOCK_HOLDER, which no other thread sets to t
LockAcquire(t) ==
    /\ LockCall(t).op = "acquire"
    /\ IF LockCall(t).lock = "PEER_TABLE_LOCK" /\ PEER_TABLE_LOCK_HOLDER = t
       THEN /\ th_pc' = [th_pc EXCEPT ![t].at = -1]
            /\ th_step' = [th_step EXCEPT ![t] = 1]
            /\ UNCHANGED LOCKS
       ELSE /\ LOCKS[LockCall(t).lock] = None
            /\ LOCKS' = [LOCKS EXCEPT ![LockCall(t).lock] = t]
            /\ LockCallDone(t)
    /\ UNCHANGED <<PEER_TABLE_LOCK_HOLDER, notLock>>

\* atlas_peer_table_lock, line 183: PEER_TABLE_LOCK_HOLDER = threading.current_thread()
LockSetHolder(t) ==
    /\ LockCall(t).op = "set_holder"
    /\ PEER_TABLE_LOCK_HOLDER' = t
    /\ LockCallDone(t)
    /\ UNCHANGED <<LOCKS, notLock>>

\* atlas_peer_table_unlock, line 208: PEER_TABLE_LOCK_HOLDER = None
LockClearHolder(t) ==
    /\ LockCall(t).op = "clear_holder"
    /\ PEER_TABLE_LOCK_HOLDER' = None
    /\ LockCallDone(t)
    /\ UNCHANGED <<LOCKS, notLock>>

\* threading.Lock.release: any thread may release a locked lock; releasing
\* a free one raises
LockRelease(t) ==
    /\ LockCall(t).op = "release"
    /\ IF LOCKS[LockCall(t).lock] = None
       THEN /\ th_pc' = [th_pc EXCEPT ![t].at = -1]
            /\ th_step' = [th_step EXCEPT ![t] = 1]
            /\ UNCHANGED LOCKS
       ELSE /\ LOCKS' = [LOCKS EXCEPT ![LockCall(t).lock] = None]
            /\ LockCallDone(t)
    /\ UNCHANGED <<PEER_TABLE_LOCK_HOLDER, notLock>>

\* run() calls step(), or the RPC server calls the operation
SectionsBegin(t) ==
    /\ th_pc[t].at = 0
    /\ th_pc' = [th_pc EXCEPT ![t].at = 1]
    /\ UNCHANGED <<PEER_TABLE_LOCK_HOLDER, LOCKS, th_step, notLock>>

LocksNext ==
    \E t \in Threads :
        \/ SectionsBegin(t)
        \/ LockAcquire(t)
        \/ LockSetHolder(t)
        \/ LockClearHolder(t)
        \/ LockRelease(t)

SpecLocks == LockInit /\ [][LocksNext]_vars

\* The locks thread t has acquired
HeldBy(t) == { l \in LockNames : LOCKS[l] = t }

\* Thread t is at an acquire of a lock that some thread has
WaitsFor(t, u) ==
    /\ LockCall(t).op = "acquire"
    /\ LOCKS[LockCall(t).lock] = u

\* The threads that wait for a lock
Blocked == { t \in Threads : \E u \in Threads : WaitsFor(t, u) }

\* C37: a thread acquires a lock while holding another only in the order
\* PEER_TABLE_LOCK first, then ZONEFILE_QUEUE_LOCK or DB_LOCK (an acyclic
\* order), and there is no set of threads each of which waits for a lock
\* held by a thread of the set.
C37_NoLockCycle ==
    /\ \A t \in Threads :
          (LockCall(t).op = "acquire" /\ HeldBy(t) # {}) =>
              /\ HeldBy(t) = {"PEER_TABLE_LOCK"}
              /\ LockCall(t).lock \in {"ZONEFILE_QUEUE_LOCK", "DB_LOCK"}
    /\ \A S \in SUBSET Blocked :
          S # {} => \E t \in S : \A u \in S : ~WaitsFor(t, u)

\* C37 witness: atlas_zonefile_push_enqueue holds the table lock and waits
\* for the zonefile queue lock, which the pusher holds, while the peer
\* crawler holds DB_LOCK and the fetcher waits for the table lock.
C37_Witness ==
    /\ LOCKS["PEER_TABLE_LOCK"] = "atlas_zonefile_push_enqueue"
    /\ WaitsFor("atlas_zonefile_push_enqueue", "AtlasZonefilePusher")
    /\ LockCall("atlas_zonefile_push_enqueue").lock = "ZONEFILE_QUEUE_LOCK"
    /\ LOCKS["DB_LOCK"] = "AtlasPeerCrawler"
    /\ WaitsFor("AtlasZonefileCrawler", "atlas_zonefile_push_enqueue")

\* C39: a thread that is between two sections, and so has returned from
\* every operation that took the peer table lock itself, holds no lock and
\* is not named as the holder; in particular no worker holds the peer
\* table lock between two steps.
C39_LockReleasedOnReturn ==
    \A t \in Threads :
        (th_pc[t].at <= 0 \/ th_step[t] = 1) =>
            /\ HeldBy(t) = {}
            /\ PEER_TABLE_LOCK_HOLDER # t

\* C39 witness: atlas_peer_enqueue has released the table lock (line 2537)
\* and is about to take the queue lock, the peer crawler is in
\* atlasdb_add_peer between the probe of the slot and the INSERT (where a
\* live ping makes it return at line 811), the health checker has raised,
\* and the fetcher holds the table lock.
C39_Witness ==
    /\ th_pc["atlas_peer_enqueue"].at = 2
    /\ th_step["atlas_peer_enqueue"] = 1
    /\ th_pc["AtlasPeerCrawler"].at = 5
    /\ th_step["AtlasPeerCrawler"] = 1
    /\ th_pc["AtlasHealthChecker"].at = -1
    /\ LOCKS["PEER_TABLE_LOCK"] = "AtlasZonefileCrawler"

\* C40: PEER_TABLE_LOCK_HOLDER names a thread only while that thread has
\* acquired PEER_TABLE_LOCK, so atlas_peer_table_is_locked_by_me is true
\* only for the thread that holds the lock and the assert "DEADLOCK" can
\* fail only for a thread that calls atlas_peer_table_lock while holding it.
C40_HolderHoldsLock ==
    \A t \in Threads :
        PEER_TABLE_LOCK_HOLDER = t => LOCKS["PEER_TABLE_LOCK"] = t

\* C40 witness: the peer crawler has cleared the holder and is about to
\* release the lock it still has, while the health checker waits for it.
C40_Witness ==
    /\ LOCKS["PEER_TABLE_LOCK"] = "AtlasPeerCrawler"
    /\ PEER_TABLE_LOCK_HOLDER = None
    /\ LockCall("AtlasPeerCrawler").op = "release"
    /\ LockCall("AtlasPeerCrawler").lock = "PEER_TABLE_LOCK"
    /\ WaitsFor("AtlasHealthChecker", "AtlasPeerCrawler")

(***************************************************************************)
(* The workers' requests to a peer that the crawler may remove meanwhile.  *)
(* Each stretch of an operation between two calls of atlas_peer_table_lock *)
(* is one step; th_pc[w].at is the line of the lock call or of the request *)
(* worker w is to execute next (0: none), th_pc[w].peer the peer it asks.  *)
(***************************************************************************)
\* The workers that ask peers while the crawler runs, and the line of the
\* request each sends
Askers == {"AtlasHealthChecker", "AtlasZonefileCrawler", "AtlasZonefilePusher"}
RequestLine(w) ==
    CASE w = "AtlasHealthChecker" -> 1857      \* get_zonefile_inventory
      [] w = "AtlasZonefileCrawler" -> 2374    \* get_zonefiles
      [] w = "AtlasZonefilePusher" -> 2698     \* put_zonefiles

\* The peers the three workers ask; the crawler adds and removes every peer
AskedPeers == {"p1"}

\* Worker w goes on at the given line; at 0 its operation on the peer is over
AskerAt(w, line, rpc) ==
    [th_pc EXCEPT ![w] = [at |-> line, rpc |-> rpc,
                         peer |-> IF line = 0 THEN None ELSE th_pc[w].peer]]

\* an update of the mirrored inventory that does not look whether the peer
\* is still there and makes a new entry for it (mutant of SetInventoryIfPresent)
SetInventoryAlways(peer_table, peer_hostport, peer_inv) ==
    PeerTablePut(peer_table, peer_hostport,
                 [(IF peer_hostport \in DOMAIN peer_table THEN peer_table[peer_hostport]
                   ELSE atlas_init_peer_info(FALSE, FALSE))
                  EXCEPT !.zonefile_inv = peer_inv])

\* atlas_peer_set_zonefile_inventory (lines 1709-1733): nothing for a peer
\* that is not in the table
SetInventoryIfPresent(peer_table, peer_hostport, peer_inv) ==
    IF peer_hostport \notin DOMAIN peer_table THEN peer_table
    ELSE [peer_table EXCEPT ![peer_hostport].zonefile_inv = peer_inv]

\* AtlasHealthChecker.step calls atlas_peer_refresh_zonefile_inventory(peer, 0):
\* lines 2033-2047, the inventory is cut to cur_inv[:0]; an absent peer
\* returns False
RefreshReset(peer_hostport) ==
    /\ th_pc["AtlasHealthChecker"].at = 0
    /\ peer_hostport \in DOMAIN PEER_TABLE
    /\ PEER_TABLE' = SetInventoryIfPresent(PEER_TABLE, peer_hostport, <<>>)
    /\ th_pc' = [th_pc EXCEPT !["AtlasHealthChecker"] =
                    [at |-> 1959, rpc |-> FALSE, peer |-> peer_hostport]]
    /\ UNCHANGED <<peers, now, rpc_last, PEER_TABLE_LOCK_HOLDER, LOCKS, th_step,
                   catVars, zonefile_queue, runVars, fetch, crawler>>

\* atlas_peer_sync_zonefile_inventory, lines 1959-1981: return None for an
\* absent peer (refresh then returns False), else release the lock and
\* send the request of atlas_peer_download_zonefile_inventory
SyncBegin ==
    LET w == "AtlasHealthChecker"
    IN /\ th_pc[w].at = 1959
       /\ th_pc' = IF th_pc[w].peer \in DOMAIN PEER_TABLE
                   THEN AskerAt(w, RequestLine(w), TRUE)
                   ELSE AskerAt(w, 0, FALSE)
       /\ UNCHANGED <<peerVars, rpc_last, PEER_TABLE_LOCK_HOLDER, LOCKS, th_step,
                      catVars, zonefile_queue, runVars, fetch, crawler>>

\* The fetcher and the pusher pick a peer of the table under the lock
\* (lines 3332-3338, 3528-3534), release it and send their request: the RPC
\* is in progress, with no lock held
AskerCall(w, peer_hostport) ==
    /\ w \in Askers \ {"AtlasHealthChecker"}
    /\ th_pc[w].at = 0
    /\ peer_hostport \in DOMAIN PEER_TABLE
    /\ th_pc' = [th_pc EXCEPT ![w] = [at |-> RequestLine(w), rpc |-> TRUE,
                                      peer |-> peer_hostport]]
    /\ UNCHANGED <<peerVars, rpc_last, PEER_TABLE_LOCK_HOLDER, LOCKS, th_step,
                   catVars, zonefile_queue, runVars, fetch, crawler>>

\* The peer answers or the call fails, and the operation records it with
\* atlas_peer_update_health (lines 1799-1823; the pusher calls it under
\* its own lock of line 2725), which does nothing for an absent peer
AskerAnswered(w, received_response) ==
    /\ w \in Askers
    /\ th_pc[w].rpc
    /\ th_pc[w].peer \in DOMAIN PEER_TABLE => Len(PEER_TABLE[th_pc[w].peer].time) < MaxHistory
    /\ PEER_TABLE' = atlas_peer_update_health(PEER_TABLE, th_pc[w].peer, received_response, now)
    /\ th_pc' = CASE w = "AtlasHealthChecker" -> AskerAt(w, 1984, FALSE)
                  [] w = "AtlasZonefileCrawler" -> AskerAt(w, 3432, FALSE)
                  [] w = "AtlasZonefilePusher" -> AskerAt(w, 0, FALSE)
    /\ UNCHANGED <<peers, now, rpc_last, PEER_TABLE_LOCK_HOLDER, LOCKS, th_step,
                   catVars, zonefile_queue, runVars, fetch, crawler>>

\* atlas_peer_sync_zonefile_inventory, lines 1984-1998: the peer is looked
\* up again; the downloaded inventory is set if it is still there
SyncSet(peer_inv) ==
    LET w == "AtlasHealthChecker"
    IN /\ th_pc[w].at = 1984
       /\ PEER_TABLE' = SetInventoryIfPresent(PEER_TABLE, th_pc[w].peer, peer_inv)
       /\ th_pc' = IF th_pc[w].peer \in DOMAIN PEER_TABLE
                   THEN AskerAt(w, 2055, FALSE)
                   ELSE AskerAt(w, 0, FALSE)
       /\ UNCHANGED <<peers, now, rpc_last, PEER_TABLE_LOCK_HOLDER, LOCKS, th_step,
                      catVars, zonefile_queue, runVars, fetch, crawler>>

\* atlas_peer_refresh_zonefile_inventory, lines 2055-2067: the peer is
\* looked up again; the refresh time is set if it is still there
RefreshStamp ==
    LET w == "AtlasHealthChecker"
        q == th_pc[w].peer
    IN /\ th_pc[w].at = 2055
       /\ PEER_TABLE' =
            IF q \notin DOMAIN PEER_TABLE THEN PEER_TABLE
            ELSE PeerTablePut(PEER_TABLE, q,
                     [f \in DOMAIN PEER_TABLE[q] \cup {"zonefile_inventory_last_refresh"} |->
                         IF f = "zonefile_inventory_last_refresh" THEN now
                         ELSE PEER_TABLE[q][f]])
       /\ th_pc' = AskerAt(w, 0, FALSE)
       /\ UNCHANGED <<peers, now, rpc_last, PEER_TABLE_LOCK_HOLDER, LOCKS, th_step,
                      catVars, zonefile_queue, runVars, fetch, crawler>>

\* AtlasZonefileCrawler.step, lines 3432-3441: for a hash the peer did not
\* deliver, atlas_peer_set_zonefile_status(peer, hash, False) clears the
\* hash's bits in the peer's inventory if the peer is in the table
\* (lines 2134-2142)
FetchClearBits(zonefile_bits) ==
    LET w == "AtlasZonefileCrawler"
        q == th_pc[w].peer
    IN /\ th_pc[w].at = 3432
       /\ PEER_TABLE' =
            IF q \notin DOMAIN PEER_TABLE THEN PEER_TABLE
            ELSE SetInventoryIfPresent(PEER_TABLE, q,
                     atlas_inventory_flip_zonefile_bits(PEER_TABLE[q].zonefile_inv,
                                                        zonefile_bits, FALSE))
       /\ th_pc' = AskerAt(w, 0, FALSE)
       /\ UNCHANGED <<peers, now, rpc_last, PEER_TABLE_LOCK_HOLDER, LOCKS, th_step,
                      catVars, zonefile_queue, runVars, fetch, crawler>>

\* The crawler adds peers (add_new_peers) and removes them
\* (remove_unhealthy_peers, atlas_revalidate_peers) while the others work
RemovedNext ==
    \/ \E q \in AskedPeers : RefreshReset(q)
    \/ SyncBegin
    \/ \E w \in Askers, q \in AskedPeers : AskerCall(w, q)
    \/ \E w \in Askers, received_response \in BOOLEAN : AskerAnswered(w, received_response)
    \/ SyncSet(<<128>>)
    \/ RefreshStamp
    \/ FetchClearBits(<<0>>)
    \/ \E q \in Hostports : atlasdb_add_peer(q, 0, [o \in Hostports |-> FALSE], FALSE)
    \/ \E q \in Hostports : atlasdb_remove_peer(q)

SpecRemoved == AddPeerInit /\ [][RemovedNext]_vars

\* C38: a peer that is not in the peer table comes into it only by an
\* atlasdb_add_peer of the crawler that inserts it, never by a step of a
\* worker that asked it: the updates after the request (health, mirrored
\* inventory, refresh time, cleared bits) leave an absent peer absent.
C38_RemovedPeerStaysAbsent ==
    [][\A q \in Hostports :
          (q \notin DOMAIN PEER_TABLE /\ q \in DOMAIN PEER_TABLE') =>
              /\ th_pc' = th_pc
              /\ rpc_last'.op = "add_peer"
              /\ rpc_last'.peer_hostport = q
              /\ rpc_last'.ret = "True"]_vars

\* C38 witness: the crawler removed p1 after the health checker and the
\* fetcher had sent it their requests; both have recorded the answer and
\* are at their next update, the pusher's request to p1 is still in
\* progress, and p1 is not in the peer table.
C38_Witness ==
    /\ "p1" \notin DOMAIN PEER_TABLE
    /\ rpc_last.op = "remove_peer" /\ rpc_last.peer_hostport = "p1"
    /\ th_pc["AtlasHealthChecker"] = [at |-> 1984, rpc |-> FALSE, peer |-> "p1"]
    /\ th_pc["AtlasZonefileCrawler"] = [at |-> 3432, rpc |-> FALSE, peer |-> "p1"]
    /\ th_pc["AtlasZonefilePusher"].rpc /\ th_pc["AtlasZonefilePusher"].peer = "p1"

=============================================================================
